---- MODULE Spec2Model ----
(***************************************************************************)
(* State-machine model of cloudgrow-sim: the per-timestep simulation       *)
(* engine (simulation/engine.py), the controller base class                *)
(* (core/base.py), the hysteresis and staged controllers                   *)
(* (controllers/*.py) and the engine factory (simulation/factory.py).      *)
(*                                                                         *)
(* Units.  The program computes in floating point; the model computes in   *)
(* integers on fixed grids: temperature in 0.1 degrees C, relative         *)
(* humidity in percent, CO2 in ppm, heat in W, time in s, humidity ratio   *)
(* in 1e-5 kg/kg, air flow in 0.1 m3/s, controller and actuator outputs in *)
(* percent of full scale, thermal-mass temperature in 0.001 C.  Quotients  *)
(* are truncated toward zero (TDiv).                                       *)
(***************************************************************************)
EXTENDS Integers, Sequences, FiniteSets, TLC

(***************************************************************************)
(* Bounds of the exploration (not program constants).                      *)
(***************************************************************************)
MaxCalls == 3        \* top-level step()/run()/reset() calls per behaviour
MaxRunSteps == 2     \* largest step count passed to run(steps)
MaxStages == 3       \* most stages a staged controller under test holds

(***************************************************************************)
(* Program constants.                                                      *)
(***************************************************************************)
MAX_TEMP_CHANGE_RATE == 1          \* 0.1 C/s, in 0.1 C per second
TEMP_MIN == -500                   \* -50 C
TEMP_MAX == 600                    \* 60 C
RH_MIN == 10
RH_MAX == 100
CO2_MIN == 200
CO2_MAX == 5000
W_FLOOR == 100                     \* 0.001 kg/kg in 1e-5 kg/kg
STANDARD_PRESSURE == 101325        \* Pa
EPSILON_E5 == 62198                \* 0.62198 * 1e5
AIR_HEAT_CAPACITY == 1478820       \* volume * 1.225 * 1006, J/K
AIR_MASS == 1470                   \* volume * 1.225, kg
VOLUME == 1200                     \* default gable geometry, m3
SOLAR_GAIN_AREA == 231             \* transmittance_solar 0.77 * floor 300 m2
UA_COVERING == 2332                \* u_value 4.0 * (wall 260 + roof 323.1) m2
VENT_HEAT_PER_DECI == 123          \* 1.225 * 1006 * 0.1 m3/s, W/K
RAD_COEFF_E9 == 1832               \* 0.1 * 5.670374e-8 * 323.1 m2 * 1e9
HEATER_CAPACITY == 10000           \* UnitHeater heating_capacity, W
HEATER_EFFICIENCY_PCT == 85        \* UnitHeater efficiency 0.85
FAN_MAX_FLOW_DECI == 50            \* ExhaustFan max_flow_rate 5.0 m3/s
MASS_HA == 100                     \* ThermalMass h 10 W/m2K * area 10 m2
MASS_CAPACITY == 4186000           \* ThermalMass mass 1000 kg * 4186 J/kgK
MASS_INITIAL_MC == 20000           \* ThermalMass initial_temperature 20 C

(***************************************************************************)
(* Arithmetic helpers.                                                     *)
(***************************************************************************)
Min(a, b) == IF a <= b THEN a ELSE b
Max(a, b) == IF a >= b THEN a ELSE b
Abs(a) == IF a < 0 THEN -a ELSE a

\* Quotient truncated toward zero, as the float quotient rounds on the grid.
TDiv(a, b) == IF a >= 0 THEN a \div b ELSE -((-a) \div b)

\* max(lo, min(hi, v)): the clamp idiom used throughout the program.
Clamp(lo, hi, v) == Max(lo, Min(hi, v))

(***************************************************************************)
(* physics/psychrometrics.py                                               *)
(***************************************************************************)
\* saturation_pressure(t) in Pa for t = -50 .. 60 C (Hyland-Wexler, tabulated
\* from the program's function at whole degrees).
SatPressureTable ==
  << 4, 4, 5, 6, 6, 7, 8, 9, 10, 11, 13, 14, 16, 18, 20, 22, 25, 28, 31, 34,
     38, 42, 47, 52, 57, 63, 70, 77, 85, 94, 103, 114, 125, 137, 151, 165, 181,
     199, 217, 238, 260, 284, 310, 338, 369, 402, 437, 476, 518, 563, 611, 657,
     706, 758, 813, 872, 935, 1002, 1073, 1148, 1228, 1313, 1403, 1498, 1599,
     1705, 1818, 1938, 2064, 2198, 2339, 2488, 2645, 2810, 2985, 3169, 3363,
     3567, 3782, 4008, 4246, 4496, 4759, 5034, 5324, 5628, 5947, 6281, 6631,
     6999, 7383, 7786, 8208, 8649, 9111, 9593, 10098, 10625, 11175, 11750,
     12350, 12976, 13629, 14310, 15020, 15760, 16530, 17333, 18169, 19039,
     19944 >>

\* The table read at a temperature in 0.1 C, linear between whole degrees.
saturation_pressure(t) ==
  LET i == ((t + 500) \div 10) + 1
      frac == (t + 500) % 10
  IN  IF frac = 0 THEN SatPressureTable[i]
      ELSE SatPressureTable[i]
             + (frac * (SatPressureTable[i + 1] - SatPressureTable[i])) \div 10

\* humidity_ratio(t, rh): W = EPSILON * p_w / (p - p_w), in 1e-5 kg/kg.
humidity_ratio(t, rh) ==
  LET p_w == (rh * saturation_pressure(t)) \div 100
  IN  (EPSILON_E5 * p_w) \div (STANDARD_PRESSURE - p_w)

\* relative_humidity(t, w): rh = 100 * p_w / p_ws clamped to [0, 100],
\* p_w = p * w / (EPSILON + w).  p and the denominator are both scaled by
\* 1/25 to stay inside 32-bit arithmetic.
relative_humidity(t, w) ==
  LET p_w == (w * (STANDARD_PRESSURE \div 25)) \div ((EPSILON_E5 + w) \div 25)
      rh  == (100 * p_w) \div saturation_pressure(t)
  IN  Min(100, Max(0, rh))

(***************************************************************************)
(* physics/heat_transfer.py                                                *)
(***************************************************************************)
\* Q = U * A * (T_inside - T_outside), temperatures in 0.1 C
conduction_heat_transfer(ua, t_inside, t_outside) ==
  TDiv(ua * (t_inside - t_outside), 10)

\* sky_temperature(t_ambient, rh, cloud_cover = 0.3) (Berdahl-Fromberg),
\* tabulated from the program's function for the exterior conditions the
\* weather profiles below can produce.
sky_temperature(t_ambient, rh) ==
  CASE t_ambient = -450 /\ rh = 80 -> -711
    [] t_ambient = 150 /\ rh = 50 -> 26
    [] t_ambient = 350 /\ rh = 30 -> 256

(***************************************************************************)
(* State.                                                                  *)
(***************************************************************************)
VARIABLES
  cfg,            \* SimulationConfig plus the weather source in use
  status,         \* SimulationEngine._status
  current_time,   \* SimulationEngine._current_time, s since start_time
  step_count,     \* SimulationEngine._step_count
  stats,          \* SimulationStats: steps_completed, simulation_time
  state,          \* SimulationEngine._state (GreenhouseState)
  sensor_reading, \* last_reading of the interior temperature sensor
  controllers,    \* SimulationEngine._controllers, in list order
  actuators,      \* SimulationEngine._actuators, by name
  mass_mC,        \* ThermalMass._temperature of the one modifier
  events,         \* event types emitted since the last call began, in order
  delivered,      \* the last event emitted since then and the handlers invoked
  heap,           \* the GreenhouseState objects, the one _state refers to,
                  \* and who was handed which
  pc,             \* position of the call in progress ("ready" = none)
  caller,         \* "none", "step" (direct step()) or "run"
  run_steps,      \* argument of run(): a count, or None
  step_counter,   \* local step_counter of run()
  ret,            \* value being returned by step()
  effects,        \* local actuator_effects of step()
  pending,        \* locals of _calculate_physics: totals and new values
  outcome,        \* how the last top-level call ended
  calls,          \* number of top-level calls made so far
  stage_log,      \* stages of the current step that have finished
  eff_state,      \* the GreenhouseState handed to get_effect in this step
  run_t0,         \* current_time when the last run() was called
  status0,        \* the status when the last step() or run() was called
  outcome0,       \* how the call before the last step() or run() ended
  run_done,       \* steps executed by the last run()
  hyst,           \* a HysteresisController under test
  hyst_prev,      \* its latch before, and the PV of, the last compute()
  staged,         \* a StagedController under test
  staged_prev,    \* its stage before, and the PV of, the last compute(), and
                  \* the PVs of the compute() calls made in a row
  fconfig,        \* the SimulationConfig handed to the factory
  fengine,        \* what create_engine_from_config returned
  pid,            \* a PIDController under test
  pid_prev,       \* what its last call was given, computed and returned
  sched,          \* a ScheduleController under test
  sched_prev,     \* what its last call was, and its output before that call
  bus,            \* an EventBus under test
  bus_emit        \* the emit() in progress on it, the last one, and every event emitted

engineVars == << cfg, status, current_time, step_count, stats, state,
                 sensor_reading, controllers, actuators, mass_mC, events, delivered,
                 heap, pc, caller, run_steps, step_counter, ret, effects, pending,
                 outcome, calls, stage_log, eff_state, run_t0, run_done,
                 status0, outcome0 >>
hystVars == << hyst, hyst_prev >>
stagedVars == << staged, staged_prev >>
factoryVars == << fconfig, fengine >>
pidVars == << pid, pid_prev >>
schedVars == << sched, sched_prev >>
busVars == << bus, bus_emit >>
vars == << engineVars, hystVars, stagedVars, factoryVars, pidVars, schedVars, busVars >>

None == -1          \* Python None for an optional count or time

(***************************************************************************)
(* core/base.py: Controller and Actuator.                                  *)
(* A controller is a record; the fields a controller kind does not use     *)
(* keep their construction values.                                         *)
(*   name, kind, enabled, setpoint, output, connected (actuator names, in the    *)
(*   order of connect_actuator); hysteresis, output_on, output_off,        *)
(*   reverse_acting, is_on (HysteresisController); stages, current_stage   *)
(*   (StagedController; stage i of the program is stages[i + 1]).          *)
(***************************************************************************)
\* set_output without the clamp to output_limits
set_output_NoClamp(a, value) == [a EXCEPT !.output = value]
\* Actuator.set_output: clamp the value to the actuator's output_limits.
set_output(a, value) == [a EXCEPT !.output = Max(a.lo, Min(a.hi, value))]

\* Controller._get_process_value: the interior temperature by default.
get_process_value(st) == st.interior.temperature

(***************************************************************************)
(* controllers/hysteresis.py                                               *)
(***************************************************************************)
\* upper_threshold and lower_threshold, doubled so that hysteresis / 2
\* stays exact on the integers.
upper_threshold2(c) == 2 * c.setpoint + c.hysteresis
\* lower_threshold with the full width below the setpoint
lower_threshold2_FullWidth(c) == 2 * c.setpoint - 2 * c.hysteresis
lower_threshold2(c) == 2 * c.setpoint - c.hysteresis

\* HysteresisController.compute: the controller after compute(pv, dt).
HysteresisCompute(c, process_value) ==
  LET is_on ==
        IF c.reverse_acting
        THEN IF 2 * process_value > upper_threshold2(c) THEN TRUE
             ELSE IF 2 * process_value < lower_threshold2(c) THEN FALSE
             ELSE c.is_on
        ELSE IF 2 * process_value < lower_threshold2(c) THEN TRUE
             ELSE IF 2 * process_value > upper_threshold2(c) THEN FALSE
             ELSE c.is_on
  IN  [c EXCEPT !.is_on = is_on,
                !.output = IF is_on THEN c.output_on ELSE c.output_off]

\* HysteresisController.reset
HysteresisReset(c) == [c EXCEPT !.output = 0, !.is_on = FALSE]

(***************************************************************************)
(* controllers/staged.py                                                   *)
(***************************************************************************)
\* effective_threshold lowering only the stages below the active one
effective_threshold_Strict(c, i) ==
  IF c.current_stage > i
  THEN c.stages[i + 1].threshold - c.hysteresis
  ELSE c.stages[i + 1].threshold
\* The threshold the loop of compute() compares stage i against.
effective_threshold(c, i) ==
  IF c.current_stage >= i
  THEN c.stages[i + 1].threshold - c.hysteresis
  ELSE c.stages[i + 1].threshold

\* The for loop of compute(): i runs over the stages in list order and
\* new_stage keeps the last index whose effective threshold pv reaches.
RECURSIVE StagedLoop(_, _, _, _)
StagedLoop(c, process_value, i, new_stage) ==
  IF i >= Len(c.stages) THEN new_stage
  ELSE StagedLoop(c, process_value, i + 1,
                  IF process_value >= effective_threshold(c, i)
                  THEN i ELSE new_stage)

\* compute() lowering the falling-edge thresholds by twice the hysteresis
StagedCompute_WideBand(c, process_value) ==
  IF Len(c.stages) = 0 THEN c
  ELSE LET new_stage ==
             StagedLoop([c EXCEPT !.hysteresis = 2 * c.hysteresis],
                        process_value, 0, -1)
       IN  [c EXCEPT !.current_stage = new_stage,
                     !.output = IF new_stage >= 0
                                THEN c.stages[new_stage + 1].output
                                ELSE 0]
\* StagedController.compute: the controller after compute(pv, dt).  With no
\* stages the method returns early and leaves the controller untouched.
StagedCompute(c, process_value) ==
  IF Len(c.stages) = 0 THEN c
  ELSE LET new_stage == StagedLoop(c, process_value, 0, -1)
       IN  [c EXCEPT !.current_stage = new_stage,
                     !.output = IF new_stage >= 0
                                THEN c.stages[new_stage + 1].output
                                ELSE 0]

\* The value compute() returns: 0.0 on the early return, else the output.
StagedResult(c, process_value) ==
  IF Len(c.stages) = 0 THEN 0 ELSE StagedCompute(c, process_value).output

\* list.sort(key = threshold) after append: a stable insertion of the new
\* stage behind every stage whose threshold is not larger.
RECURSIVE SortedInsert(_, _)
SortedInsert(stages, s) ==
  IF Len(stages) = 0 THEN << s >>
  ELSE IF stages[Len(stages)].threshold <= s.threshold
       THEN Append(stages, s)
       ELSE Append(SortedInsert(SubSeq(stages, 1, Len(stages) - 1), s),
                   stages[Len(stages)])

\* StagedController.add_stage
StagedAddStage(c, threshold, output) ==
  [c EXCEPT !.stages = SortedInsert(c.stages,
                                    [threshold |-> threshold, output |-> output])]

\* StagedController.clear_stages
StagedClearStages(c) == [c EXCEPT !.stages = << >>, !.current_stage = -1]

\* StagedController.reset
StagedReset(c) == [c EXCEPT !.output = 0, !.current_stage = -1]

(***************************************************************************)
(* controllers/pid.py.  Process values, setpoints and outputs are in       *)
(* 0.01 of their unit, gains are whole numbers, dt and the derivative      *)
(* filter time constant are in 0.1 s.                                      *)
(***************************************************************************)
\* PIDController.__init__ on top of Controller.__init__
NewPID(kp, ki, kd, setpoint, lo, hi, anti_windup, tau, reverse_acting) ==
  [kp |-> kp, ki |-> ki, kd |-> kd, setpoint |-> setpoint, lo |-> lo,
   hi |-> hi, anti_windup |-> anti_windup,
   derivative_filter |-> tau,
   reverse_acting |-> reverse_acting,
   output |-> 0, integral |-> 0, last_error |-> None, last_derivative |-> 0,
   last_pv |-> None]

\* The error compute() works on
PIDError(c, process_value) ==
  IF c.reverse_acting THEN -(c.setpoint - process_value)
  ELSE c.setpoint - process_value

\* The filtered derivative on the process value that compute() stores
PIDDerivative(c, process_value, dt) ==
  IF c.last_pv # None /\ dt > 0
  THEN LET d_pv == TDiv(-(process_value - c.last_pv) * 10, dt)
       IN  IF c.derivative_filter > 0
           THEN TDiv(dt * d_pv + c.derivative_filter * c.last_derivative,
                     c.derivative_filter + dt)
           ELSE d_pv
  ELSE 0

\* The unclamped output p_term + i_term + d_term of compute()
PIDRawOutput(c, process_value, dt) ==
  c.kp * PIDError(c, process_value)
    + c.ki * (c.integral + TDiv(PIDError(c, process_value) * dt, 10))
    + c.kd * PIDDerivative(c, process_value, dt)

\* PIDController.compute without the back-calculation of the integral
PIDCompute_NoBackCalculation(c, process_value, dt) ==
  IF dt <= 0 THEN c
  ELSE LET error == PIDError(c, process_value)
           output == PIDRawOutput(c, process_value, dt)
       IN  [c EXCEPT !.integral = c.integral + TDiv(error * dt, 10),
                     !.last_error = error,
                     !.last_derivative = PIDDerivative(c, process_value, dt),
                     !.last_pv = process_value,
                     !.output = Max(c.lo, Min(c.hi, output))]
\* PIDController.compute: the controller after compute(pv, dt); the value
\* returned is its output field.
PIDCompute(c, process_value, dt) ==
  IF dt <= 0 THEN c
  ELSE LET error == PIDError(c, process_value)
           p_term == c.kp * error
           integral == c.integral + TDiv(error * dt, 10)
           last_derivative == PIDDerivative(c, process_value, dt)
           d_term == c.kd * last_derivative
           output == PIDRawOutput(c, process_value, dt)
           clamped_output == Max(c.lo, Min(c.hi, output))
       IN  [c EXCEPT !.integral =
                       IF c.anti_windup /\ c.ki # 0 /\ output # clamped_output
                       THEN TDiv(clamped_output - p_term - d_term, c.ki)
                       ELSE integral,
                     !.last_error = error,
                     !.last_derivative = last_derivative,
                     !.last_pv = process_value,
                     !.output = clamped_output]

\* PIDController.reset on top of Controller.reset
PIDReset(c) ==
  [c EXCEPT !.output = 0, !.integral = 0, !.last_error = None,
            !.last_derivative = 0, !.last_pv = None]

(***************************************************************************)
(* controllers/schedule.py.  Times of day are minutes since midnight,      *)
(* values are in 0.01 of their unit.                                       *)
(***************************************************************************)
\* add_entry: append, then list.sort on (hour, minute), which is stable.
RECURSIVE AddEntry(_, _)
AddEntry(schedule, e) ==
  IF Len(schedule) = 0 THEN << e >>
  ELSE IF schedule[Len(schedule)].minutes <= e.minutes
       THEN Append(schedule, e)
       ELSE Append(AddEntry(SubSeq(schedule, 1, Len(schedule) - 1), e),
                   schedule[Len(schedule)])

\* The loop of ScheduleController.__init__ over the entries it is given
RECURSIVE AddEntries(_, _)
AddEntries(schedule, entries) ==
  IF Len(entries) = 0 THEN schedule
  ELSE AddEntries(AddEntry(schedule, Head(entries)), Tail(entries))

\* ScheduleController.__init__ on top of Controller.__init__: the setpoint
\* is default_value, the output is 0.
NewSchedule(entries, interpolate, mode, default_value, enabled) ==
  [setpoint |-> default_value, output |-> 0, enabled |-> enabled,
   interpolate |-> interpolate, mode |-> mode,
   default_value |-> default_value,
   schedule |-> AddEntries(<< >>, entries), connected |-> << >>]

\* Controller.connect_actuator on a schedule controller; connected holds
\* the actuator objects the controller refers to.
ScheduleConnect(c, actuator) ==
  IF \E i \in DOMAIN c.connected : c.connected[i] = actuator THEN c
  ELSE [c EXCEPT !.connected = Append(c.connected, actuator)]

\* get_scheduled_value without the 24 h added to a time before the
\* previous entry
GetScheduledValue_NoWrap(c, time_of_day) ==
  IF Len(c.schedule) = 0 THEN c.default_value
  ELSE
    LET sch == c.schedule
        before == { i \in DOMAIN sch : sch[i].minutes <= time_of_day }
        after == { i \in DOMAIN sch : sch[i].minutes > time_of_day }
        prev_entry ==
          IF before = { } THEN sch[Len(sch)]
          ELSE sch[CHOOSE i \in before : \A j \in before : j <= i]
        next_entry ==
          IF after = { } THEN sch[1]
          ELSE sch[CHOOSE i \in after : \A j \in after : i <= j]
        prev_minutes == prev_entry.minutes
        next_minutes == IF next_entry.minutes < prev_minutes
                        THEN next_entry.minutes + 24 * 60
                        ELSE next_entry.minutes
        current_minutes == time_of_day
    IN  IF ~c.interpolate THEN prev_entry.value
        ELSE IF next_minutes = prev_minutes THEN prev_entry.value
        ELSE prev_entry.value
               + TDiv((current_minutes - prev_minutes)
                        * (next_entry.value - prev_entry.value),
                      next_minutes - prev_minutes)
\* get_scheduled_value: the last entry not after the time and the first
\* one after it, wrapping at midnight, then the previous value or the
\* linear interpolation between the two.
GetScheduledValue(c, time_of_day) ==
  IF Len(c.schedule) = 0 THEN c.default_value
  ELSE
    LET sch == c.schedule
        before == { i \in DOMAIN sch : sch[i].minutes <= time_of_day }
        after == { i \in DOMAIN sch : sch[i].minutes > time_of_day }
        prev_entry ==
          IF before = { } THEN sch[Len(sch)]
          ELSE sch[CHOOSE i \in before : \A j \in before : j <= i]
        next_entry ==
          IF after = { } THEN sch[1]
          ELSE sch[CHOOSE i \in after : \A j \in after : i <= j]
        prev_minutes == prev_entry.minutes
        next_minutes == IF next_entry.minutes < prev_minutes
                        THEN next_entry.minutes + 24 * 60
                        ELSE next_entry.minutes
        current_minutes == IF time_of_day < prev_minutes
                           THEN time_of_day + 24 * 60 ELSE time_of_day
    IN  IF ~c.interpolate THEN prev_entry.value
        ELSE IF next_minutes = prev_minutes THEN prev_entry.value
        ELSE prev_entry.value
               + TDiv((current_minutes - prev_minutes)
                        * (next_entry.value - prev_entry.value),
                      next_minutes - prev_minutes)

\* ScheduleController.compute, now being the wall-clock time of day
ScheduleCompute(c, now) ==
  LET scheduled_value == GetScheduledValue(c, now)
  IN  IF c.mode = "setpoint"
      THEN [c EXCEPT !.setpoint = scheduled_value, !.output = scheduled_value]
      ELSE [c EXCEPT !.output = scheduled_value]

\* ScheduleController.update writing the output in setpoint mode and the
\* setpoint in direct mode
ScheduleUpdate_ModesSwapped(c, time) ==
  IF ~c.enabled THEN c
  ELSE LET scheduled_value == GetScheduledValue(c, time)
           u == IF c.mode = "setpoint"
                THEN [c EXCEPT !.output = scheduled_value]
                ELSE [c EXCEPT !.setpoint = scheduled_value]
       IN  [u EXCEPT !.connected =
              [i \in DOMAIN c.connected |-> set_output(c.connected[i], u.output)]]
\* ScheduleController.update on a state whose time of day is given: the
\* scheduled value goes to the setpoint or to the output, and the output
\* to every connected actuator.
ScheduleUpdate(c, time) ==
  IF ~c.enabled THEN c
  ELSE LET scheduled_value == GetScheduledValue(c, time)
           u == IF c.mode = "setpoint"
                THEN [c EXCEPT !.setpoint = scheduled_value]
                ELSE [c EXCEPT !.output = scheduled_value]
       IN  [u EXCEPT !.connected =
              [i \in DOMAIN c.connected |-> set_output(c.connected[i], u.output)]]

\* ScheduleController.reset on top of Controller.reset
ScheduleReset(c) == [c EXCEPT !.output = c.default_value]

\* Controller.__init__ plus the subclass constructors: a fresh controller.
NewController(kind) ==
  [name |-> kind, kind |-> kind, enabled |-> TRUE, setpoint |-> 0, output |-> 0,
   connected |-> << >>, hysteresis |-> 0, output_on |-> 100,
   output_off |-> 0, reverse_acting |-> FALSE, is_on |-> FALSE,
   stages |-> << >>, current_stage |-> -1]

\* HysteresisController.__init__
NewHysteresis(setpoint, hysteresis, output_on, output_off, reverse_acting) ==
  [NewController("hysteresis") EXCEPT
     !.setpoint = setpoint, !.hysteresis = hysteresis,
     !.output_on = output_on, !.output_off = output_off,
     !.reverse_acting = reverse_acting]

\* StagedController.__init__ (stages given sorted by threshold)
NewStaged(stages, hysteresis) ==
  [NewController("staged") EXCEPT !.stages = stages, !.hysteresis = hysteresis]

\* Controller.compute dispatched on the controller's class
Compute(c, process_value) ==
  IF c.kind = "hysteresis" THEN HysteresisCompute(c, process_value)
  ELSE StagedCompute(c, process_value)

\* The value Controller.update stores in _output: what compute() returned.
ComputeResult(c, process_value) ==
  IF c.kind = "hysteresis" THEN HysteresisCompute(c, process_value).output
  ELSE StagedResult(c, process_value)

(***************************************************************************)
(* Actuators (components/actuators) and the thermal mass modifier.         *)
(* An effect is the record of the five keys the engine aggregates; a key   *)
(* an actuator does not report is 0, which is what skipping it adds.       *)
(***************************************************************************)
ActuatorNames == << "heater", "fan", "injector" >>

ZeroEffect ==
  [ventilation_rate |-> 0, heat_output |-> 0, evaporative_cooling |-> 0,
   humidity_addition_rate |-> 0, co2_injection_rate |-> 0]

\* UnitHeater.get_effect: capacity * output * efficiency, in W
HeaterEffect(a) ==
  [ZeroEffect EXCEPT !.heat_output =
     (HEATER_CAPACITY * a.output * HEATER_EFFICIENCY_PCT) \div 10000]

\* ExhaustFan.get_effect: max_flow_rate * output, in 0.1 m3/s
FanEffect(a) ==
  [ZeroEffect EXCEPT !.ventilation_rate = (FAN_MAX_FLOW_DECI * a.output) \div 100]

\* get_effect of an Actuator subclass supplied by the caller, an
\* evaporative and CO2 dosing unit ("injector"): cooling in W, humidity in
\* 1e-5 kg/s and CO2 in 1e-6 m3/s, all proportional to the output.
InjectorEffect(a) ==
  [ZeroEffect EXCEPT !.evaporative_cooling = 300 * a.output,
                     !.humidity_addition_rate = 10 * a.output,
                     !.co2_injection_rate = 400 * a.output]

\* actuator.get_effect(state) dispatched on the actuator's class
get_effect(a, st) ==
  CASE a.kind = "heater" -> HeaterEffect(a)
    [] a.kind = "fan" -> FanEffect(a)
    [] a.kind = "injector" -> InjectorEffect(a)

\* ThermalMass.update: the new mass temperature (0.001 C) after exchanging
\* heat with the interior air of the state it is handed.
ThermalMassUpdate(mass, dt, st) ==
  mass + TDiv(-(MASS_HA * (mass - 100 * st.interior.temperature)) * dt,
              MASS_CAPACITY)

(***************************************************************************)
(* simulation/weather.py: get_conditions(timestamp) of the configured      *)
(* source, a pure function of the timestamp.                               *)
(***************************************************************************)
WeatherProfiles == { "cold", "hot", "turning" }

ColdConditions == [temperature |-> -450, humidity |-> 80, solar_radiation |-> 0]
MildConditions == [temperature |-> 150, humidity |-> 50, solar_radiation |-> 0]
HotConditions == [temperature |-> 350, humidity |-> 30, solar_radiation |-> 900]

get_conditions(profile, timestamp) ==
  CASE profile = "cold" -> ColdConditions
    [] profile = "hot" -> HotConditions
    [] profile = "turning" ->
         IF timestamp = 0 THEN MildConditions ELSE HotConditions

(***************************************************************************)
(* core/events.py: the event bus.  A subscription is a record of the key   *)
(* it was made under (an event type, or "*" for subscribe_all) and of      *)
(* whether the handler raises an Exception when it is called; handlers     *)
(* are numbered in subscription order.                                     *)
(***************************************************************************)
\* What the handlers of a bus were called for: nothing yet
NoDelivery == [event |-> "none", invoked |-> << >>, raised |-> FALSE]

\* self._handlers[key]: the handlers subscribed under key, in order
HandlersFor(sinks, key) ==
  SelectSeq([i \in 1 .. Len(sinks) |-> i], LAMBDA i : sinks[i].key = key)

\* One handler call made with no try/except around it
CallHandler_Uncaught(sinks, id) == [propagates |-> sinks[id].raises]
\* One handler call inside try/except Exception: a failure is logged and
\* does not leave the loop.
CallHandler(sinks, id) == [propagates |-> FALSE]

\* The two for loops of emit() over the handlers ids, invoked collecting
\* the handlers called so far
RECURSIVE NotifyHandlers(_, _, _, _)
NotifyHandlers(sinks, event_key, ids, invoked) ==
  IF Len(ids) = 0
  THEN [event |-> event_key, invoked |-> invoked, raised |-> FALSE]
  ELSE IF CallHandler(sinks, Head(ids)).propagates
       THEN [event |-> event_key, invoked |-> Append(invoked, Head(ids)),
             raised |-> TRUE]
       ELSE NotifyHandlers(sinks, event_key, Tail(ids),
                           Append(invoked, Head(ids)))

\* EventBus.emit: the handlers of the event type, then the wildcard ones
emit(sinks, event_key) ==
  NotifyHandlers(sinks, event_key,
                 HandlersFor(sinks, event_key) \o HandlersFor(sinks, "*"),
                 << >>)

\* The subscriptions on the bus the engine emits to
SinkSets ==
  { << >>,
    << [key |-> "state_update", raises |-> TRUE],
       [key |-> "state_update", raises |-> FALSE],
       [key |-> "*", raises |-> TRUE],
       [key |-> "*", raises |-> FALSE],
       [key |-> "simulation_stop", raises |-> FALSE] >> }

\* Event types used on the bus under test, and the keys of its handler lists
BusTypes == { "simulation_start", "simulation_step" }
BusKeys == BusTypes \cup { "*" }

\* EventBus.__init__: a defaultdict of handler lists, so every key reads as
\* an empty list, and a deque bounded by max_history.
NewBus(max_history) ==
  [handlers |-> [k \in BusKeys |-> << >>],
   history |-> << >>,
   max_history |-> max_history]

\* handler in self._handlers[key]
HandlerIn(handlers, h) == \E i \in DOMAIN handlers : handlers[i] = h

\* EventBus.subscribe: appended unless already in the list of that key
BusSubscribe(b, key, h) ==
  IF HandlerIn(b.handlers[key], h) THEN b
  ELSE [b EXCEPT !.handlers[key] = Append(@, h)]

\* EventBus.unsubscribe: list.remove (a list never holds a handler twice)
BusUnsubscribe(b, key, h) ==
  [b EXCEPT !.handlers[key] = SelectSeq(@, LAMBDA x : x # h)]

\* deque.append refusing the new event once maxlen is reached
HistoryAppend_KeepOldest(history, maxlen, event) ==
  IF Len(history) >= maxlen THEN history ELSE Append(history, event)
\* deque(maxlen=...).append: at maxlen the leftmost element is discarded
HistoryAppend(history, maxlen, event) ==
  IF maxlen = 0 THEN << >>
  ELSE IF Len(history) >= maxlen THEN Append(Tail(history), event)
  ELSE Append(history, event)

(***************************************************************************)
(* simulation/engine.py: the pure parts of one step.                       *)
(***************************************************************************)
\* _update_exterior_conditions leaving the exterior of the step before
UpdateExteriorConditions_Stale(st, now, conditions) ==
  [st EXCEPT !.time = now]
\* _update_exterior_conditions: a new GreenhouseState with the exterior
\* replaced (the exterior CO2 is carried over) and the time stamped.
UpdateExteriorConditions(st, now, conditions) ==
  [time |-> now,
   interior |-> st.interior,
   exterior |-> [temperature |-> conditions.temperature,
                 humidity |-> conditions.humidity,
                 co2_ppm |-> st.exterior.co2_ppm],
   solar_radiation |-> conditions.solar_radiation]

\* Controller.update for one enabled controller: compute on the process
\* value and store what compute() returned as the output.
ControllerUpdate(c, st) ==
  LET pv == get_process_value(st)
  IN  [Compute(c, pv) EXCEPT !.output = ComputeResult(c, pv)]

\* The loop of Controller.update over _connected_actuators.
RECURSIVE ApplyToConnected(_, _, _, _)
ApplyToConnected(acts, connected, value, i) ==
  IF i > Len(connected) THEN acts
  ELSE ApplyToConnected(
         [acts EXCEPT ![connected[i]] = set_output(acts[connected[i]], value)],
         connected, value, i + 1)

\* _execute_controllers: the loop over the controllers in list order, from
\* index i on, stopping in front of controller failAt (0: none raises).
\* Yields the controllers and the actuators as the loop leaves them.
RECURSIVE ExecuteControllers(_, _, _, _, _)
ExecuteControllers(ctrls, acts, st, i, failAt) ==
  IF i > Len(ctrls) \/ i = failAt THEN [controllers |-> ctrls, actuators |-> acts]
  ELSE IF ~ctrls[i].enabled
       THEN ExecuteControllers(ctrls, acts, st, i + 1, failAt)
       ELSE LET c == ControllerUpdate(ctrls[i], st)
            IN  ExecuteControllers([ctrls EXCEPT ![i] = c],
                                   ApplyToConnected(acts, c.connected, c.output, 1),
                                   st, i + 1, failAt)

\* _apply_actuator_outputs: the effects dictionary, one entry per enabled
\* actuator, each computed by get_effect on the engine's current state.
ApplyActuatorOutputs(acts, st) ==
  [n \in { m \in DOMAIN acts : acts[m].enabled } |-> get_effect(acts[n], st)]

\* _aggregate_actuator_effects
RECURSIVE SumOver(_, _, _)
SumOver(effs, names, key) ==
  IF names = {} THEN 0
  ELSE LET n == CHOOSE m \in names : TRUE
       IN  effs[n][key] + SumOver(effs, names \ {n}, key)

AggregateActuatorEffects(effs) ==
  [ventilation_rate |-> SumOver(effs, DOMAIN effs, "ventilation_rate"),
   heating |-> SumOver(effs, DOMAIN effs, "heat_output"),
   cooling |-> SumOver(effs, DOMAIN effs, "evaporative_cooling"),
   humidity_addition |-> SumOver(effs, DOMAIN effs, "humidity_addition_rate"),
   co2_injection |-> SumOver(effs, DOMAIN effs, "co2_injection_rate")]

\* Sky radiation loss eps * sigma * A * (T_int^4 - T_sky^4) on Kelvin
\* temperatures, factored as (a - b)(a + b)(a^2 + b^2) and scaled to stay
\* inside 32-bit arithmetic.
SkyRadiationLoss(t_int, t_sky) ==
  LET a == (t_int + 2732) \div 10
      b == (t_sky + 2732) \div 10
      g == (a + b) * (a * a + b * b)
  IN  TDiv((((g \div 10000) * RAD_COEFF_E9) \div 100000) * (t_int - t_sky), 10)

\* _calculate_heat_balance without the sky radiation loss
CalculateHeatBalance_NoSkyLoss(st, totals) ==
  LET t_int == st.interior.temperature
      t_ext == st.exterior.temperature
      solar_transmitted == st.solar_radiation * SOLAR_GAIN_AREA
      q_conduction == conduction_heat_transfer(UA_COVERING, t_int, t_ext)
      q_ventilation ==
        TDiv(totals.ventilation_rate * VENT_HEAT_PER_DECI * (t_int - t_ext), 10)
  IN  solar_transmitted + totals.heating - q_conduction - q_ventilation
        - totals.cooling
\* _calculate_heat_balance: net heat flux in W
CalculateHeatBalance(st, totals) ==
  LET t_int == st.interior.temperature
      t_ext == st.exterior.temperature
      solar_transmitted == st.solar_radiation * SOLAR_GAIN_AREA
      q_conduction == conduction_heat_transfer(UA_COVERING, t_int, t_ext)
      q_ventilation ==
        TDiv(totals.ventilation_rate * VENT_HEAT_PER_DECI * (t_int - t_ext), 10)
      t_sky == sky_temperature(t_ext, st.exterior.humidity)
      q_radiation == SkyRadiationLoss(t_int, t_sky)
  IN  solar_transmitted + totals.heating - q_conduction - q_ventilation
        - q_radiation - totals.cooling

\* The limit of one minute for every step, not scaled by dt
MaxTempChange_PerMinute(dt) == MAX_TEMP_CHANGE_RATE * 60
\* The largest temperature change of one step, _MAX_TEMP_CHANGE_RATE * dt
MaxTempChange(dt) == MAX_TEMP_CHANGE_RATE * dt

\* _apply_temperature_change: rate limit, then clamp to the AirState range
ApplyTemperatureChange(st, q_net, dt) ==
  LET dt_temp == TDiv(q_net * dt * 10, AIR_HEAT_CAPACITY)
      limited == Max(-MaxTempChange(dt), Min(MaxTempChange(dt), dt_temp))
  IN  Max(TEMP_MIN, Min(TEMP_MAX, st.interior.temperature + limited))

\* _calculate_moisture_balance
CalculateMoistureBalance(st, totals, new_temp, dt) ==
  LET w_int == humidity_ratio(st.interior.temperature, st.interior.humidity)
      w_ext == humidity_ratio(st.exterior.temperature, st.exterior.humidity)
      moisture_ventilation ==
        TDiv(totals.ventilation_rate * 1225 * (w_ext - w_int), 10000)
      dw == TDiv((moisture_ventilation + totals.humidity_addition) * dt, AIR_MASS)
      new_w == Max(W_FLOOR, w_int + dw)
  IN  Max(RH_MIN, Min(RH_MAX, relative_humidity(new_temp, new_w)))

\* _calculate_co2_balance without the final clamp
CalculateCo2Balance_NoClamp(st, totals, dt) ==
  LET co2_int == st.interior.co2_ppm
      co2_ext == st.exterior.co2_ppm
      exchange == TDiv(totals.ventilation_rate * (co2_ext - co2_int), 10)
      d_co2 == TDiv((exchange + totals.co2_injection) * dt, VOLUME)
  IN  co2_int + d_co2
\* _calculate_co2_balance
CalculateCo2Balance(st, totals, dt) ==
  LET co2_int == st.interior.co2_ppm
      co2_ext == st.exterior.co2_ppm
      exchange == TDiv(totals.ventilation_rate * (co2_ext - co2_int), 10)
      d_co2 == TDiv((exchange + totals.co2_injection) * dt, VOLUME)
  IN  Max(CO2_MIN, Min(CO2_MAX, co2_int + d_co2))

\* _update_interior_state: a new GreenhouseState with the interior replaced
UpdateInteriorState(st, now, new_temp, new_rh, new_co2) ==
  [time |-> now,
   interior |-> [temperature |-> new_temp, humidity |-> new_rh,
                 co2_ppm |-> new_co2],
   exterior |-> st.exterior,
   solar_radiation |-> st.solar_radiation]

(***************************************************************************)
(* The engine under test: configurations and initial states.               *)
(***************************************************************************)
\* SimulationConfig.time_step
TimeSteps == { 10, 60 }

\* SimulationConfig.end_time for a time step dt: None, the start time
\* itself, or a time strictly between the second and the third step.
EndTimes(dt) == { None, 0, (3 * dt) \div 2 }

\* (emit_events, emit_interval)
EmitSettings == { << TRUE, 1 >>, << TRUE, 2 >>, << FALSE, 1 >> }

\* Interior air of the initial GreenhouseState (each a valid AirState)
InitialInteriors ==
  { [temperature |-> 200, humidity |-> 60, co2_ppm |-> 400],
    [temperature |-> -498, humidity |-> 90, co2_ppm |-> 100],
    [temperature |-> 599, humidity |-> 5, co2_ppm |-> 4990] }

InitialState(interior) ==
  [time |-> 0, interior |-> interior,
   exterior |-> [temperature |-> 150, humidity |-> 50, co2_ppm |-> 400],
   solar_radiation |-> 0]

\* How the caller wired controllers to actuators with connect_actuator:
\*   "paired"  heat_ctrl -> heater, fan_ctrl -> fan and injector
\*   "shared"  heat_ctrl -> heater and fan, fan_ctrl disabled
\*   "unbound" no actuator connected to any controller; the caller has set
\*             the injector to full output with set_output
\*   "idle"    no actuator connected to any controller, every actuator at
\*             output 0 (the fan's lower limit is 0 here)
Wirings == { "paired", "shared", "unbound" }

HeatCtrl == NewHysteresis(220, 40, 150, 0, FALSE)
FanCtrl ==
  NewStaged(<< [threshold |-> 250, output |-> 33],
               [threshold |-> 270, output |-> 66],
               [threshold |-> 290, output |-> 100] >>, 10)

InitialControllers(wiring) ==
  CASE wiring = "paired" ->
         << [HeatCtrl EXCEPT !.connected = << "heater" >>],
            [FanCtrl EXCEPT !.connected = << "fan", "injector" >>] >>
    [] wiring = "shared" ->
         << [HeatCtrl EXCEPT !.connected = << "heater", "fan" >>],
            [FanCtrl EXCEPT !.enabled = FALSE] >>
    [] wiring = "unbound" -> << HeatCtrl, FanCtrl >>
    [] wiring = "idle" -> << HeatCtrl, FanCtrl >>

\* Actuator.__init__: the output starts at the lower output limit.
NewActuator(kind, lo, hi) ==
  [kind |-> kind, enabled |-> TRUE, output |-> lo, lo |-> lo, hi |-> hi]

InitialActuators(wiring) ==
  [n \in { "heater", "fan", "injector" } |->
     CASE n = "heater" -> NewActuator("heater", 0, 100)
       [] n = "fan" -> IF wiring = "idle" THEN NewActuator("fan", 0, 80)
                       ELSE NewActuator("fan", 20, 80)
       [] n = "injector" ->
            IF wiring = "unbound"
            THEN set_output(NewActuator("injector", 0, 100), 100)
            ELSE NewActuator("injector", 0, 100)]

NoPending == [totals |-> AggregateActuatorEffects(<< >>), new_temp |-> 0,
              new_rh |-> 0, new_co2 |-> 0, set |-> FALSE]

\* SimulationEngine.__init__ on a configuration and an initial state
\* The objects of class GreenhouseState: objs[i] is what object i holds
\* now, built[i] what its constructor was given, id the object the
\* engine's _state refers to, seen who was handed which object and what
\* it held then.  The engine starts on the object its caller built, and
\* at the start of a call the objects in scope are the one the engine is
\* on, which the caller holds.
NewHeap(value) ==
  [id |-> 1, objs |-> << value >>, built |-> << value >>,
   seen |-> { [by |-> "caller", id |-> 1, value |-> value] }]

\* The fields of the object _state refers to assigned one by one
ReplaceState_InPlace(h, value) == [h EXCEPT !.objs[h.id] = value]
\* self._state = GreenhouseState(...): a new object, and _state refers
\* to it from now on.
ReplaceState(h, value) ==
  [h EXCEPT !.id = Len(h.objs) + 1, !.objs = Append(h.objs, value),
            !.built = Append(h.built, value)]

\* self._state handed to a collaborator, or read by the caller
Observe(h, by) ==
  [h EXCEPT !.seen = h.seen \cup { [by |-> by, id |-> h.id,
                                    value |-> h.objs[h.id]] }]

EngineConstructed(config, interior) ==
  /\ cfg = config
  /\ status = "idle"
  /\ current_time = 0
  /\ step_count = 0
  /\ stats = [steps_completed |-> 0, simulation_time |-> 0]
  /\ state = InitialState(interior)
  /\ sensor_reading = None
  /\ controllers = InitialControllers(config.wiring)
  /\ actuators = InitialActuators(config.wiring)
  /\ mass_mC = MASS_INITIAL_MC
  /\ events = << >> /\ delivered = NoDelivery
  /\ heap = NewHeap(InitialState(interior))
  /\ pc = "ready" /\ caller = "none"
  /\ run_steps = None /\ step_counter = 0 /\ ret = FALSE
  /\ effects = << >> /\ pending = NoPending
  /\ outcome = "none" /\ calls = 0
  /\ stage_log = << >> /\ eff_state = InitialState(interior)
  /\ run_t0 = 0 /\ run_done = 0 /\ status0 = "idle" /\ outcome0 = "none"

\* The engine left alone, for the specifications of the other components
DefaultConfig ==
  [time_step |-> 60, end_time |-> None, emit_events |-> TRUE,
   emit_interval |-> 1, weather |-> "turning", wiring |-> "paired",
   sinks |-> << >>]

DefaultInterior == [temperature |-> 200, humidity |-> 60, co2_ppm |-> 400]

\* Configurations that vary the clock and the event settings
TimingConfigs ==
  UNION { { [DefaultConfig EXCEPT !.time_step = dt, !.end_time = e,
                                  !.emit_events = em[1],
                                  !.emit_interval = em[2],
                                  !.sinks = sk] :
              e \in EndTimes(dt), em \in EmitSettings, sk \in SinkSets } :
          dt \in TimeSteps }

\* Configurations that vary the weather and the wiring
PhysicsConfigs ==
  { [DefaultConfig EXCEPT !.time_step = dt, !.weather = w, !.wiring = k] :
      dt \in TimeSteps, w \in WeatherProfiles, k \in Wirings }

\* An engine whose interior starts at the exterior temperature of the
\* first step, with no sun and no actuator at work, stepping 120 s
EquilibriumConfig ==
  [DefaultConfig EXCEPT !.time_step = 2 * 60, !.weather = "turning",
                        !.wiring = "idle"]
EquilibriumInterior == [temperature |-> 150, humidity |-> 50, co2_ppm |-> 400]

InitEngine ==
  \/ \E config \in TimingConfigs : EngineConstructed(config, DefaultInterior)
  \/ \E config \in PhysicsConfigs, interior \in InitialInteriors :
       EngineConstructed(config, interior)
  \/ EngineConstructed(EquilibriumConfig, EquilibriumInterior)

EngineUntouched == EngineConstructed(DefaultConfig, DefaultInterior)

(***************************************************************************)
(* simulation/engine.py: step(), run() and reset() as steps of the call    *)
(* in progress.  pc = "ready" means no call is in progress.                *)
(***************************************************************************)
callVars == << caller, run_steps, step_counter, ret >>
localVars == << effects, pending, stage_log, eff_state >>
ghostRun == << run_t0, run_done, status0, outcome0 >>
others == << hystVars, stagedVars, factoryVars, pidVars, schedVars, busVars >>

\* A caller invokes engine.step() directly.
CallStep ==
  /\ pc = "ready" /\ calls < MaxCalls
  /\ calls' = calls + 1
  /\ caller' = "step" /\ pc' = "step_entry" /\ outcome' = "pending"
  /\ events' = << >> /\ delivered' = NoDelivery
  /\ heap' = NewHeap(state)
  /\ status0' = status /\ outcome0' = outcome
  /\ UNCHANGED << cfg, status, current_time, step_count, stats, state,
                  sensor_reading, controllers, actuators, mass_mC,
                  run_steps, step_counter, ret, localVars, run_t0, run_done,
                  others >>

\* run(steps), up to the loop: status RUNNING and the start event.
CallRun ==
  \E n \in { None } \cup (0 .. MaxRunSteps) :
    /\ pc = "ready" /\ calls < MaxCalls
    /\ n = None => cfg.end_time # None     \* otherwise run() never returns
    /\ calls' = calls + 1
    /\ status' = "running"
    /\ events' = << "simulation_start" >>
    /\ delivered' = emit(cfg.sinks, "simulation_start")
    /\ run_steps' = n /\ step_counter' = 0
    /\ caller' = "run" /\ pc' = "run_loop" /\ outcome' = "pending"
    /\ run_t0' = current_time /\ run_done' = 0
    /\ status0' = status /\ outcome0' = outcome
    /\ heap' = NewHeap(state)
    /\ UNCHANGED << cfg, current_time, step_count, stats, state,
                    sensor_reading, controllers, actuators, mass_mC, ret,
                    localVars, others >>

\* The loop of run() leaving one iteration late
RunLoop_OneMore ==
  /\ pc = "run_loop"
  /\ pc' = IF run_steps # None /\ step_counter > run_steps
           THEN "run_exit" ELSE "step_entry"
  /\ UNCHANGED << cfg, status, current_time, step_count, stats, state,
                  sensor_reading, controllers, actuators, mass_mC, events, delivered, heap,
                  callVars, localVars, outcome, calls, ghostRun, others >>
\* The head of the while loop of run(): leave once the count is reached,
\* else call step().
RunLoop ==
  /\ pc = "run_loop"
  /\ pc' = IF run_steps # None /\ step_counter >= run_steps
           THEN "run_exit" ELSE "step_entry"
  /\ UNCHANGED << cfg, status, current_time, step_count, stats, state,
                  sensor_reading, controllers, actuators, mass_mC, events, delivered, heap,
                  callVars, localVars, outcome, calls, ghostRun, others >>

\* The two guards at the top of step().
StepEntry ==
  /\ pc = "step_entry"
  /\ IF status = "stopped"
     THEN /\ ret' = FALSE /\ pc' = "step_return" /\ status' = status
     ELSE IF cfg.end_time # None /\ current_time >= cfg.end_time
     THEN /\ status' = "stopped" /\ ret' = FALSE /\ pc' = "step_return"
     ELSE /\ pc' = "exterior" /\ UNCHANGED << status, ret >>
  /\ UNCHANGED << cfg, current_time, step_count, stats, state,
                  sensor_reading, controllers, actuators, mass_mC, events, delivered, heap,
                  caller, run_steps, step_counter, localVars, outcome, calls,
                  ghostRun, others >>

\* 1. _update_exterior_conditions
StepExterior ==
  /\ pc = "exterior"
  /\ state' = UpdateExteriorConditions(
                state, current_time, get_conditions(cfg.weather, current_time))
  /\ stage_log' = << "exterior" >>
  /\ pc' = "sensors"
  /\ heap' = ReplaceState(heap, state')
  /\ UNCHANGED << cfg, status, current_time, step_count, stats,
                  sensor_reading, controllers, actuators, mass_mC, events, delivered,
                  callVars, effects, pending, eff_state, outcome, calls,
                  ghostRun, others >>

\* 2. _read_sensors: the interior temperature sensor reads the state.
StepSensors ==
  /\ pc = "sensors"
  /\ sensor_reading' = state.interior.temperature
  /\ stage_log' = Append(stage_log, "sensors")
  /\ pc' = "controllers"
  /\ heap' = Observe(heap, "sensor")
  /\ UNCHANGED << cfg, status, current_time, step_count, stats, state,
                  controllers, actuators, mass_mC, events, delivered, callVars, effects,
                  pending, eff_state, outcome, calls, ghostRun, others >>

\* 3. _execute_controllers, every compute() returning
StepControllers ==
  /\ pc = "controllers"
  /\ LET r == ExecuteControllers(controllers, actuators, state, 1, 0)
     IN  controllers' = r.controllers /\ actuators' = r.actuators
  /\ stage_log' = Append(stage_log, "controllers")
  /\ pc' = "actuators"
  /\ heap' = Observe(heap, "controller")
  /\ UNCHANGED << cfg, status, current_time, step_count, stats, state,
                  sensor_reading, mass_mC, events, delivered, callVars, effects,
                  pending, eff_state, outcome, calls, ghostRun, others >>

\* 3. _execute_controllers, the compute() of an enabled controller raising:
\* the controllers in front of it have been updated and applied.
StepControllersRaise ==
  \E failAt \in { i \in 1 .. Len(controllers) : controllers[i].enabled } :
    /\ pc = "controllers"
    /\ LET r == ExecuteControllers(controllers, actuators, state, 1, failAt)
       IN  controllers' = r.controllers /\ actuators' = r.actuators
    /\ pc' = "raise"
    /\ UNCHANGED << cfg, status, current_time, step_count, stats, state,
                    sensor_reading, mass_mC, events, delivered, heap, callVars, localVars,
                    outcome, calls, ghostRun, others >>

\* 4. _apply_actuator_outputs
StepActuators ==
  /\ pc = "actuators"
  /\ effects' = ApplyActuatorOutputs(actuators, state)
  /\ eff_state' = state
  /\ stage_log' = Append(stage_log, "actuators")
  /\ pc' = "physics"
  /\ heap' = Observe(heap, "actuator")
  /\ UNCHANGED << cfg, status, current_time, step_count, stats, state,
                  sensor_reading, controllers, actuators, mass_mC, events, delivered,
                  callVars, pending, outcome, calls, ghostRun, others >>

\* 5. _calculate_physics up to the CO2 balance: the aggregation and the
\* three balances, kept in locals.
StepPhysics ==
  /\ pc = "physics"
  /\ LET totals == AggregateActuatorEffects(effects)
         q_net == CalculateHeatBalance(state, totals)
         new_temp == ApplyTemperatureChange(state, q_net, cfg.time_step)
     IN  pending' =
           [totals |-> totals, new_temp |-> new_temp,
            new_rh |-> CalculateMoistureBalance(state, totals, new_temp,
                                                cfg.time_step),
            new_co2 |-> CalculateCo2Balance(state, totals, cfg.time_step),
            set |-> TRUE]
  /\ stage_log' = Append(stage_log, "physics")
  /\ pc' = "modifiers"
  /\ UNCHANGED << cfg, status, current_time, step_count, stats, state,
                  sensor_reading, controllers, actuators, mass_mC, events, delivered, heap,
                  callVars, effects, eff_state, outcome, calls, ghostRun,
                  others >>

\* 5. a physics-library function raising inside the balances (its argument
\* checks fail on a state a collaborator has altered in place).
StepPhysicsRaise ==
  /\ pc = "physics"
  /\ pc' = "raise"
  /\ UNCHANGED << cfg, status, current_time, step_count, stats, state,
                  sensor_reading, controllers, actuators, mass_mC, events, delivered, heap,
                  callVars, localVars, outcome, calls, ghostRun, others >>

\* 5. _update_modifiers, called from _calculate_physics
StepModifiers ==
  /\ pc = "modifiers"
  /\ mass_mC' = ThermalMassUpdate(mass_mC, cfg.time_step, state)
  /\ stage_log' = Append(stage_log, "modifiers")
  /\ pc' = "interior"
  /\ heap' = Observe(heap, "modifier")
  /\ UNCHANGED << cfg, status, current_time, step_count, stats, state,
                  sensor_reading, controllers, actuators, events, delivered, callVars,
                  effects, pending, eff_state, outcome, calls, ghostRun,
                  others >>

\* 5. _update_interior_state, the last statement of _calculate_physics
StepInterior ==
  /\ pc = "interior"
  /\ state' = UpdateInteriorState(state, current_time, pending.new_temp,
                                  pending.new_rh, pending.new_co2)
  /\ stage_log' = Append(stage_log, "state")
  /\ pc' = "telemetry"
  /\ heap' = ReplaceState(heap, state')
  /\ UNCHANGED << cfg, status, current_time, step_count, stats,
                  sensor_reading, controllers, actuators, mass_mC, events, delivered,
                  callVars, effects, pending, eff_state, outcome, calls,
                  ghostRun, others >>

\* The two guards of _emit_telemetry taken on the count of the step after
EmitDue_NextCount(config, count) ==
  config.emit_events /\ (count + 1) % config.emit_interval = 0
\* The two guards of _emit_telemetry: events are enabled and the step
\* count is a multiple of emit_interval.
EmitDue(config, count) ==
  config.emit_events /\ count % config.emit_interval = 0

\* The counters of SimulationStats with the simulated time left behind
StatsAfterStep_NoSimulationTime(st, config) ==
  [st EXCEPT !.steps_completed = @ + 1]
\* The last two statements of step() before it returns True
StatsAfterStep(st, config) ==
  [steps_completed |-> st.steps_completed + 1,
   simulation_time |-> st.simulation_time + config.time_step]

\* 6. _emit_telemetry, then the time advance and the counters; step()
\* returns True.
StepTelemetry ==
  /\ pc = "telemetry"
  /\ LET due == EmitDue(cfg, step_count)
         d == emit(cfg.sinks, "state_update")
     IN  /\ events' = IF due THEN Append(events, "state_update") ELSE events
         /\ delivered' = IF due THEN d ELSE delivered
         /\ heap' = IF due /\ d.invoked # << >>
                    THEN Observe(heap, "handler") ELSE heap
         /\ IF due /\ d.raised
            THEN /\ pc' = "raise"
                 /\ UNCHANGED << stage_log, current_time, step_count, stats,
                                 ret >>
            ELSE /\ stage_log' = Append(stage_log, "telemetry")
                 /\ current_time' = current_time + cfg.time_step
                 /\ step_count' = step_count + 1
                 /\ stats' = StatsAfterStep(stats, cfg)
                 /\ ret' = TRUE
                 /\ pc' = "step_return"
  /\ UNCHANGED << cfg, status, state, sensor_reading, controllers,
                  actuators, mass_mC, caller, run_steps, step_counter,
                  effects, pending, eff_state, outcome, calls, ghostRun,
                  others >>

\* step() returns: to its direct caller, or into the loop of run().
StepReturn ==
  /\ pc = "step_return"
  /\ effects' = << >> /\ pending' = NoPending /\ stage_log' = << >>
  /\ eff_state' = state
  /\ heap' = IF caller = "step" THEN Observe(heap, "caller") ELSE heap
  /\ IF caller = "step"
     THEN /\ outcome' = IF ret THEN "true" ELSE "false"
          /\ pc' = "ready" /\ caller' = "none"
          /\ UNCHANGED << step_counter, run_done >>
     ELSE /\ pc' = IF ret THEN "run_loop" ELSE "run_exit"
          /\ step_counter' = IF ret THEN step_counter + 1 ELSE step_counter
          /\ run_done' = IF ret THEN run_done + 1 ELSE run_done
          /\ UNCHANGED << outcome, caller >>
  /\ UNCHANGED << cfg, status, current_time, step_count, stats, state,
                  sensor_reading, controllers, actuators, mass_mC, events, delivered,
                  run_steps, ret, calls, run_t0, status0, outcome0,
                  others >>

\* run() returning without the stop event of its finally block
RunExit_NoStopEvent ==
  /\ pc = "run_exit"
  /\ UNCHANGED << events, delivered >>
  /\ status' = "stopped"
  /\ outcome' = "returned"
  /\ pc' = "ready" /\ caller' = "none"
  /\ heap' = Observe(heap, "caller")
  /\ UNCHANGED << cfg, current_time, step_count, stats, state,
                  sensor_reading, controllers, actuators, mass_mC,
                  run_steps, step_counter, ret, localVars, calls, ghostRun,
                  others >>
\* run() after the loop: the finally block, status STOPPED, return.
RunExit ==
  /\ pc = "run_exit"
  /\ events' = Append(events, "simulation_stop")
  /\ delivered' = emit(cfg.sinks, "simulation_stop")
  /\ status' = "stopped"
  /\ outcome' = "returned"
  /\ pc' = "ready" /\ caller' = "none"
  /\ heap' = Observe(heap, "caller")
  /\ UNCHANGED << cfg, current_time, step_count, stats, state,
                  sensor_reading, controllers, actuators, mass_mC,
                  run_steps, step_counter, ret, localVars, calls, ghostRun,
                  others >>

\* An exception leaving step() and reaching a direct caller.
StepRaise ==
  /\ pc = "raise" /\ caller = "step"
  /\ outcome' = "raised"
  /\ pc' = "ready" /\ caller' = "none"
  /\ effects' = << >> /\ pending' = NoPending /\ stage_log' = << >>
  /\ eff_state' = state
  /\ heap' = Observe(heap, "caller")
  /\ UNCHANGED << cfg, status, current_time, step_count, stats, state,
                  sensor_reading, controllers, actuators, mass_mC, events, delivered,
                  run_steps, step_counter, ret, calls, ghostRun, others >>

\* run() catching the exception and going round its loop again
RunExcept_Retry ==
  /\ pc = "raise" /\ caller = "run"
  /\ events' = Append(events, "simulation_error")
  /\ delivered' = emit(cfg.sinks, "simulation_error")
  /\ pc' = "run_loop"
  /\ effects' = << >> /\ pending' = NoPending /\ stage_log' = << >>
  /\ eff_state' = state
  /\ UNCHANGED heap
  /\ UNCHANGED << cfg, status, current_time, step_count, stats, state,
                  sensor_reading, controllers, actuators, mass_mC, caller,
                  outcome, run_steps, step_counter, ret, calls, ghostRun,
                  others >>
\* An exception leaving step() inside run(): the except block (status
\* ERROR, error event), the finally block (stop event), and the re-raise.
RunExcept ==
  /\ pc = "raise" /\ caller = "run"
  /\ status' = "error"
  /\ events' = events \o << "simulation_error", "simulation_stop" >>
  /\ delivered' = emit(cfg.sinks, "simulation_stop")
  /\ outcome' = "raised"
  /\ pc' = "ready" /\ caller' = "none"
  /\ effects' = << >> /\ pending' = NoPending /\ stage_log' = << >>
  /\ eff_state' = state
  /\ heap' = Observe(heap, "caller")
  /\ UNCHANGED << cfg, current_time, step_count, stats, state,
                  sensor_reading, controllers, actuators, mass_mC,
                  run_steps, step_counter, ret, calls, ghostRun, others >>

\* Controller.reset dispatched on the controller's class
ControllerReset(c) ==
  IF c.kind = "hysteresis" THEN HysteresisReset(c) ELSE StagedReset(c)

\* Actuator.reset
ActuatorReset(a) == [a EXCEPT !.output = a.lo]

\* An object the caller has built and holds
CallerObject(h, value) ==
  [h EXCEPT !.objs = Append(h.objs, value), !.built = Append(h.built, value),
            !.seen = h.seen \cup { [by |-> "caller", id |-> Len(h.objs) + 1,
                                    value |-> value] }]

\* reset(initial_state) keeping the state it has
ResetState_Ignored(h, given) == h
\* The first statement of reset(initial_state): _state refers to the
\* object handed in, the last one of h, if one is handed in.
ResetState(h, given) == IF given THEN [h EXCEPT !.id = Len(h.objs)] ELSE h

\* reset(initial_state): the new state if one is given, the clock, the
\* counters and the status, then reset() of every component (Sensor and
\* ThermalMass leave their state as it is).
Reset ==
  \E given \in BOOLEAN, s0 \in InitialInteriors :
    /\ pc = "ready" /\ calls < MaxCalls
    /\ calls' = calls + 1
    /\ heap' = ResetState(IF given
                           THEN CallerObject(NewHeap(state), InitialState(s0))
                           ELSE NewHeap(state), given)
    /\ state' = heap'.objs[heap'.id]
    /\ current_time' = 0
    /\ step_count' = 0
    /\ stats' = [steps_completed |-> 0, simulation_time |-> 0]
    /\ status' = "idle"
    /\ actuators' = [n \in DOMAIN actuators |-> ActuatorReset(actuators[n])]
    /\ controllers' = [i \in DOMAIN controllers |-> ControllerReset(controllers[i])]
    /\ outcome' = "reset"
    /\ eff_state' = state'
    /\ events' = << >> /\ delivered' = NoDelivery
    /\ UNCHANGED << cfg, sensor_reading, mass_mC, pc, callVars,
                    effects, pending, stage_log, ghostRun, others >>

NextEngine ==
  \/ CallStep \/ CallRun \/ Reset
  \/ RunLoop \/ StepEntry
  \/ StepExterior \/ StepSensors
  \/ StepControllers \/ StepControllersRaise
  \/ StepActuators
  \/ StepPhysics \/ StepPhysicsRaise
  \/ StepModifiers \/ StepInterior \/ StepTelemetry
  \/ StepReturn \/ RunExit \/ StepRaise \/ RunExcept

(***************************************************************************)
(* A hysteresis controller on its own: compute(), reset() and the          *)
(* setpoint setter called in any order.                                    *)
(***************************************************************************)
HystSetpoints == { 20, 22 }         \* in whole degrees C
HystWidths == { 0, 2, 3 }
HystOutputs == { << 100, 0 >>, << 75, 10 >> }
HystPVs == { 18, 19, 20, 21, 22, 23, 24 }

InitHyst ==
  /\ \E sp \in HystSetpoints, h \in HystWidths, o \in HystOutputs,
        rev \in BOOLEAN :
       hyst = NewHysteresis(sp, h, o[1], o[2], rev)
  /\ hyst_prev = [op |-> "init", is_on |-> FALSE, pv |-> 0]

HystCompute ==
  \E pv \in HystPVs :
    /\ hyst' = HysteresisCompute(hyst, pv)
    /\ hyst_prev' = [op |-> "compute", is_on |-> hyst.is_on, pv |-> pv]
    /\ UNCHANGED << engineVars, stagedVars, factoryVars, pidVars, schedVars, busVars >>

HystReset ==
  /\ hyst' = HysteresisReset(hyst)
  /\ hyst_prev' = [op |-> "reset", is_on |-> hyst.is_on, pv |-> 0]
  /\ UNCHANGED << engineVars, stagedVars, factoryVars, pidVars, schedVars, busVars >>

\* Controller.setpoint setter
HystSetSetpoint ==
  \E sp \in HystSetpoints :
    /\ sp # hyst.setpoint
    /\ hyst' = [hyst EXCEPT !.setpoint = sp]
    /\ hyst_prev' = [op |-> "setpoint", is_on |-> hyst.is_on, pv |-> 0]
    /\ UNCHANGED << engineVars, stagedVars, factoryVars, pidVars, schedVars, busVars >>

NextHyst == HystCompute \/ HystReset \/ HystSetSetpoint

(***************************************************************************)
(* A staged controller on its own: compute(), add_stage(), clear_stages()  *)
(* and reset() called in any order.  Process values and thresholds are in  *)
(* 0.1 C here.                                                             *)
(***************************************************************************)
StageLists ==
  { << >>,
    << [threshold |-> 250, output |-> 33], [threshold |-> 270, output |-> 66],
       [threshold |-> 290, output |-> 100] >>,
    << [threshold |-> 250, output |-> 50], [threshold |-> 250, output |-> 100] >> }
StagedWidths == { 0, 10, 30 }
StagedPVs == { 230, 240, 250, 260, 273, 280, 293, 300 }
AddedStages == { [threshold |-> 240, output |-> 20],
                 [threshold |-> 280, output |-> 80] }

\* The process values of the last compute() calls made in a row, the
\* newest last, at most HistLen of them
HistLen == 3
LastPVs(pvs) ==
  IF Len(pvs) <= HistLen THEN pvs ELSE SubSeq(pvs, Len(pvs) - HistLen + 1, Len(pvs))

InitStaged ==
  /\ \E st \in StageLists, h \in StagedWidths : staged = NewStaged(st, h)
  /\ staged_prev = [op |-> "init", stage |-> -1, pv |-> 0, pvs |-> << >>]

StagedComputeCall ==
  \E pv \in StagedPVs :
    /\ staged' = StagedCompute(staged, pv)
    /\ staged_prev' = [op |-> "compute", stage |-> staged.current_stage, pv |-> pv,
                       pvs |-> LastPVs(Append(staged_prev.pvs, pv))]
    /\ UNCHANGED << engineVars, hystVars, factoryVars, pidVars, schedVars, busVars >>

StagedAddStageCall ==
  \E s \in AddedStages :
    /\ Len(staged.stages) < MaxStages
    /\ staged' = StagedAddStage(staged, s.threshold, s.output)
    /\ staged_prev' = [op |-> "add_stage", stage |-> staged.current_stage, pv |-> 0,
                       pvs |-> << >>]
    /\ UNCHANGED << engineVars, hystVars, factoryVars, pidVars, schedVars, busVars >>

StagedClearStagesCall ==
  /\ staged' = StagedClearStages(staged)
  /\ staged_prev' = [op |-> "clear_stages", stage |-> staged.current_stage, pv |-> 0,
                       pvs |-> << >>]
  /\ UNCHANGED << engineVars, hystVars, factoryVars, pidVars, schedVars, busVars >>

StagedResetCall ==
  /\ staged' = StagedReset(staged)
  /\ staged_prev' = [op |-> "reset", stage |-> staged.current_stage, pv |-> 0,
                       pvs |-> << >>]
  /\ UNCHANGED << engineVars, hystVars, factoryVars, pidVars, schedVars, busVars >>

NextStaged ==
  StagedComputeCall \/ StagedAddStageCall \/ StagedClearStagesCall
    \/ StagedResetCall

(***************************************************************************)
(* A PID controller on its own: compute(), reset() and the setpoint        *)
(* setter called in any order.                                             *)
(***************************************************************************)
MaxPidCalls == 3

\* (kp, ki, kd, derivative_filter)
PidGains ==
  { << 1, 0, 0, 1 >>, << 10, 0, 0, 1 >>, << 0, 10, 0, 1 >>, << 1, 1, 0, 1 >>,
    << 1, 1, 1, 0 >>, << 0, 1, 1, 1 >> }
PidLimits == { << 0, 100 >>, << 20, 80 >> }
PidSetpoints == { 0, 10000 }
PidPVs == { 0, 9000, 10000 }
PidDts == { 0, 1, 10 }

NoPidCall ==
  [op |-> "init", n |-> 0, pv |-> 0, dt |-> 0, ret |-> 0, p_term |-> 0,
   d_term |-> 0, saturated |-> FALSE]

InitPid ==
  /\ \E g \in PidGains, l \in PidLimits, aw \in BOOLEAN, rev \in BOOLEAN :
       pid = NewPID(g[1], g[2], g[3], 10000, l[1], l[2], aw, g[4], rev)
  /\ pid_prev = NoPidCall

PidComputeCall ==
  \E pv \in PidPVs, dt \in PidDts :
    /\ pid_prev.n < MaxPidCalls
    /\ pid' = PIDCompute(pid, pv, dt)
    /\ pid_prev' =
         [op |-> "compute", n |-> pid_prev.n + 1, pv |-> pv, dt |-> dt,
          ret |-> pid'.output,
          p_term |-> pid.kp * PIDError(pid, pv),
          d_term |-> pid.kd * PIDDerivative(pid, pv, dt),
          saturated |-> dt > 0 /\ PIDRawOutput(pid, pv, dt) # pid'.output]
    /\ UNCHANGED << engineVars, hystVars, stagedVars, factoryVars, schedVars, busVars >>

PidResetCall ==
  /\ pid_prev.n < MaxPidCalls
  /\ pid' = PIDReset(pid)
  /\ pid_prev' = [NoPidCall EXCEPT !.op = "reset", !.n = pid_prev.n + 1]
  /\ UNCHANGED << engineVars, hystVars, stagedVars, factoryVars, schedVars, busVars >>

\* Controller.setpoint setter
PidSetSetpoint ==
  \E sp \in PidSetpoints :
    /\ pid_prev.n < MaxPidCalls
    /\ sp # pid.setpoint
    /\ pid' = [pid EXCEPT !.setpoint = sp]
    /\ pid_prev' = [NoPidCall EXCEPT !.op = "setpoint", !.n = pid_prev.n + 1]
    /\ UNCHANGED << engineVars, hystVars, stagedVars, factoryVars, schedVars, busVars >>

NextPid == PidComputeCall \/ PidResetCall \/ PidSetSetpoint

(***************************************************************************)
(* A schedule controller on its own: compute(), update() and reset()       *)
(* called in any order.                                                    *)
(***************************************************************************)
\* (time "HH:MM", value) lists handed to the constructor
ScheduleLists ==
  { << >>,
    << [minutes |-> 8 * 60, value |-> 2400] >>,
    << [minutes |-> 6 * 60, value |-> 1800], [minutes |-> 18 * 60, value |-> 2400] >>,
    << [minutes |-> 22 * 60, value |-> 1600], [minutes |-> 6 * 60, value |-> 2000] >>,
    << [minutes |-> 8 * 60, value |-> 1800], [minutes |-> 8 * 60, value |-> 2400] >> }
ScheduleDefaults == { 0, 2000 }
ScheduleTimes == { 0, 5 * 60, 7 * 60, 8 * 60, 19 * 60 }

\* An actuator taking 0 .. 20.00
ScheduleActuator == NewActuator("heater", 0, 2000)

NoSchedCall == [op |-> "init", time |-> 0, output |-> 0]

InitSched ==
  /\ \E e \in ScheduleLists, i \in BOOLEAN, m \in { "setpoint", "direct" },
        d \in ScheduleDefaults, en \in BOOLEAN :
       \/ sched = NewSchedule(e, i, m, d, en)
       \/ sched = ScheduleConnect(NewSchedule(e, i, m, d, en), ScheduleActuator)
  /\ sched_prev = NoSchedCall

SchedComputeCall ==
  \E now \in ScheduleTimes :
    /\ sched' = ScheduleCompute(sched, now)
    /\ sched_prev' = [op |-> "compute", time |-> now, output |-> sched.output]
    /\ UNCHANGED << engineVars, hystVars, stagedVars, factoryVars, pidVars, busVars >>

SchedUpdateCall ==
  \E time \in ScheduleTimes :
    /\ sched' = ScheduleUpdate(sched, time)
    /\ sched_prev' = [op |-> "update", time |-> time, output |-> sched.output]
    /\ UNCHANGED << engineVars, hystVars, stagedVars, factoryVars, pidVars, busVars >>

SchedResetCall ==
  /\ sched' = ScheduleReset(sched)
  /\ sched_prev' = [op |-> "reset", time |-> 0, output |-> sched.output]
  /\ UNCHANGED << engineVars, hystVars, stagedVars, factoryVars, pidVars, busVars >>

NextSched == SchedComputeCall \/ SchedUpdateCall \/ SchedResetCall

(***************************************************************************)
(* An event bus on its own: subscribe(), unsubscribe() and emit() called   *)
(* in any order, with handlers that may subscribe and unsubscribe while    *)
(* an event is being dispatched.                                           *)
(***************************************************************************)
BusHandlers == { 1, 2 }
MaxHistories == { 0, 1, 2 }
MaxEmits == 3

\* No emit() made yet
NoEmit ==
  [phase |-> "idle", event |-> [seq |-> 0, type |-> "none"], i |-> 1,
   invoked |-> << >>, at_start |-> {}, log |-> << >>]

InitBus ==
  /\ bus \in { NewBus(m) : m \in MaxHistories }
  /\ bus_emit = NoEmit

\* subscribe() or subscribe_all() from outside a dispatch
BusSubscribeCall ==
  /\ bus_emit.phase = "idle"
  /\ \E key \in BusKeys, h \in BusHandlers :
       /\ ~HandlerIn(bus.handlers[key], h)
       /\ bus' = BusSubscribe(bus, key, h)
  /\ UNCHANGED << bus_emit, engineVars, hystVars, stagedVars, factoryVars, pidVars, schedVars >>

\* unsubscribe() from outside a dispatch
BusUnsubscribeCall ==
  /\ bus_emit.phase = "idle"
  /\ \E key \in BusKeys, h \in BusHandlers :
       /\ HandlerIn(bus.handlers[key], h)
       /\ bus' = BusUnsubscribe(bus, key, h)
  /\ UNCHANGED << bus_emit, engineVars, hystVars, stagedVars, factoryVars, pidVars, schedVars >>

\* emit(): the event enters the history, then the list of its type is
\* iterated from its first position.
BusEmitCall ==
  /\ bus_emit.phase = "idle"
  /\ Len(bus_emit.log) < MaxEmits
  /\ \E type \in BusTypes :
       LET event == [seq |-> Len(bus_emit.log) + 1, type |-> type]
       IN  /\ bus' = [bus EXCEPT !.history = HistoryAppend(@, bus.max_history, event)]
           /\ bus_emit' = [phase |-> "specific", event |-> event, i |-> 1,
                           invoked |-> << >>,
                           at_start |-> { h \in BusHandlers :
                                            \/ HandlerIn(bus.handlers[type], h)
                                            \/ HandlerIn(bus.handlers["*"], h) },
                           log |-> Append(bus_emit.log, event)]
  /\ UNCHANGED << engineVars, hystVars, stagedVars, factoryVars, pidVars, schedVars >>

\* What a handler does with the bus when it is invoked
HandlerDoes(b, does) ==
  IF does.op = "subscribe" THEN BusSubscribe(b, does.key, does.h)
  ELSE IF does.op = "unsubscribe" THEN BusUnsubscribe(b, does.key, does.h)
  ELSE b
HandlerBehaviours ==
  { [op |-> "nothing", key |-> "*", h |-> 1] }
    \cup [op : { "subscribe", "unsubscribe" }, key : BusKeys, h : BusHandlers]

\* One turn of a "for handler in self._handlers[...]" loop of emit(): the
\* list iterator reads position i of the list as it is now, and the loop
\* ends when i is past the end of the list as it is now.
BusNotify ==
  /\ bus_emit.phase \in { "specific", "wildcard" }
  /\ LET key == IF bus_emit.phase = "specific" THEN bus_emit.event.type ELSE "*"
         handlers == bus.handlers[key]
     IN  IF bus_emit.i <= Len(handlers)
         THEN \E does \in HandlerBehaviours :
                /\ bus' = HandlerDoes(bus, does)
                /\ bus_emit' = [bus_emit EXCEPT
                                  !.invoked = Append(@, handlers[bus_emit.i]),
                                  !.i = @ + 1]
         ELSE /\ bus_emit' = [bus_emit EXCEPT
                                !.phase = IF @ = "specific" THEN "wildcard" ELSE "idle",
                                !.i = 1]
              /\ UNCHANGED bus
  /\ UNCHANGED << engineVars, hystVars, stagedVars, factoryVars, pidVars, schedVars >>

NextBus == BusSubscribeCall \/ BusUnsubscribeCall \/ BusEmitCall \/ BusNotify

(***************************************************************************)
(* simulation/factory.py: create_engine_from_config, and controller        *)
(* updates of the engine it returned.                                      *)
(***************************************************************************)
ControllerRefs == { "none", "c1", "c2" }

\* ComponentsConfig: two ActuatorConfig and two ControllerConfig entries
FactoryConfigs ==
  { [actuators |->
       << [name |-> "a1", type |-> "heater", enabled |-> e1, controller |-> r1],
          [name |-> "a2", type |-> "fan", enabled |-> e2, controller |-> r2] >>,
     controllers |->
       << [name |-> "c1", type |-> "hysteresis", enabled |-> e3],
          [name |-> "c2", type |-> "staged", enabled |-> e4] >>] :
      e1 \in BOOLEAN, e2 \in BOOLEAN, e3 \in BOOLEAN, e4 \in BOOLEAN,
      r1 \in ControllerRefs, r2 \in ControllerRefs }

NoEngine == [built |-> FALSE, actuators |-> << >>, controllers |-> << >>]

\* _create_controller through the registry, for one ControllerConfig
CreateController(ccfg) ==
  [(IF ccfg.type = "hysteresis" THEN HeatCtrl ELSE FanCtrl)
     EXCEPT !.name = ccfg.name]

\* _create_actuator through the registry, for one ActuatorConfig
CreateActuator(acfg) == NewActuator(acfg.type, 0, 100)

RECURSIVE MapControllers(_)
MapControllers(ccfgs) ==
  IF Len(ccfgs) = 0 THEN << >>
  ELSE << CreateController(Head(ccfgs)) >> \o MapControllers(Tail(ccfgs))

IsEnabled(c) == c.enabled

\* create_engine_from_config: the enabled actuators and controllers are
\* created and added to the engine; no connect_actuator call is made.
CreateEngineFromConfig(config) ==
  [built |-> TRUE,
   actuators |->
     [n \in { config.actuators[i].name :
                i \in { j \in DOMAIN config.actuators : config.actuators[j].enabled } } |->
        CreateActuator(
          config.actuators[CHOOSE i \in DOMAIN config.actuators :
                             config.actuators[i].name = n])],
   controllers |-> MapControllers(SelectSeq(config.controllers, IsEnabled))]

InitFactory ==
  /\ fconfig \in FactoryConfigs
  /\ fengine = NoEngine

FactoryCreate ==
  /\ ~fengine.built
  /\ fengine' = CreateEngineFromConfig(fconfig)
  /\ UNCHANGED << fconfig, engineVars, hystVars, stagedVars, pidVars, schedVars, busVars >>

\* The controller stage of a step of the returned engine
FactoryEngineStep ==
  \E t \in { 150, 300 } :
    /\ fengine.built
    /\ LET st == InitialState([temperature |-> t, humidity |-> 60,
                               co2_ppm |-> 400])
           r == ExecuteControllers(fengine.controllers, fengine.actuators,
                                   st, 1, 0)
       IN  fengine' = [fengine EXCEPT !.controllers = r.controllers,
                                      !.actuators = r.actuators]
    /\ UNCHANGED << fconfig, engineVars, hystVars, stagedVars, pidVars, schedVars, busVars >>

NextFactory == FactoryCreate \/ FactoryEngineStep

(***************************************************************************)
(* Specifications.                                                         *)
(***************************************************************************)
HystUntouched ==
  /\ hyst = NewHysteresis(20, 2, 100, 0, FALSE)
  /\ hyst_prev = [op |-> "init", is_on |-> FALSE, pv |-> 0]
StagedUntouched ==
  /\ staged = NewStaged(<< >>, 0)
  /\ staged_prev = [op |-> "init", stage |-> -1, pv |-> 0, pvs |-> << >>]
PidUntouched ==
  /\ pid = NewPID(1, 0, 0, 10000, 0, 100, TRUE, 1, FALSE)
  /\ pid_prev = NoPidCall
SchedUntouched ==
  /\ sched = NewSchedule(<< >>, TRUE, "setpoint", 2000, TRUE)
  /\ sched_prev = NoSchedCall
BusUntouched ==
  /\ bus = NewBus(0)
  /\ bus_emit = NoEmit
FactoryUntouched ==
  /\ fconfig = CHOOSE c \in FactoryConfigs : TRUE
  /\ fengine = NoEngine

\* The engine driven by step(), run() and reset()
Init == InitEngine /\ HystUntouched /\ StagedUntouched /\ FactoryUntouched
  /\ BusUntouched
  /\ SchedUntouched
  /\ PidUntouched
Next == NextEngine
Spec == Init /\ [][Next]_vars

\* A hysteresis controller driven directly
InitHystSpec == EngineUntouched /\ InitHyst /\ StagedUntouched /\ FactoryUntouched
  /\ BusUntouched
  /\ SchedUntouched
  /\ PidUntouched
SpecHyst == InitHystSpec /\ [][NextHyst]_vars

\* A staged controller driven directly
InitStagedSpec == EngineUntouched /\ HystUntouched /\ InitStaged /\ FactoryUntouched
  /\ BusUntouched
  /\ SchedUntouched
  /\ PidUntouched
SpecStaged == InitStagedSpec /\ [][NextStaged]_vars

\* A PID controller driven directly
InitPidSpec ==
  EngineUntouched /\ HystUntouched /\ StagedUntouched /\ FactoryUntouched
    /\ InitPid /\ SchedUntouched /\ BusUntouched
SpecPid == InitPidSpec /\ [][NextPid]_vars

\* A schedule controller driven directly
InitSchedSpec ==
  EngineUntouched /\ HystUntouched /\ StagedUntouched /\ FactoryUntouched
    /\ PidUntouched /\ InitSched /\ BusUntouched
SpecSchedule == InitSchedSpec /\ [][NextSched]_vars

\* An event bus driven directly
InitBusSpec ==
  EngineUntouched /\ HystUntouched /\ StagedUntouched /\ FactoryUntouched
    /\ PidUntouched /\ SchedUntouched /\ InitBus
SpecBus == InitBusSpec /\ [][NextBus]_vars

\* The factory and the engine it returns
InitFactorySpec == EngineUntouched /\ HystUntouched /\ StagedUntouched /\ InitFactory
  /\ BusUntouched
  /\ SchedUntouched
  /\ PidUntouched
SpecFactory == InitFactorySpec /\ [][NextFactory]_vars

(***************************************************************************)
(* Properties.                                                             *)
(***************************************************************************)
IsPrefix(p, q) == Len(p) <= Len(q) /\ SubSeq(q, 1, Len(p)) = p
InLog(stage) == \E i \in DOMAIN stage_log : stage_log[i] = stage

\* A transition that belongs to a step() or run() call (every transition
\* but reset(), which starts and ends with no call in progress).
ByStepOrRun == ~(pc = "ready" /\ pc' = "ready")

\* C1: every status change made by step() or run() is Idle -> Running,
\* Running -> Stopped or Running -> Error.
C1_StatusStateMachine ==
  [][(ByStepOrRun /\ status' # status)
       => << status, status' >> \in { << "idle", "running" >>,
                                      << "running", "stopped" >>,
                                      << "running", "error" >> }]_vars

\* The order of the stages of one step
StageOrder ==
  << "exterior", "sensors", "controllers", "actuators", "physics",
     "modifiers", "state", "telemetry" >>

\* The clock value the step in progress started with (the clock advances
\* at the very end of step()).
StepTime ==
  IF InLog("telemetry") THEN current_time - cfg.time_step ELSE current_time

EffectOf(n, key) == IF n \in DOMAIN effects THEN effects[n][key] ELSE 0

\* C2: within a step the stages finish in the fixed order; the actuator
\* effects are computed from the state that carries this step's exterior
\* conditions and from the actuator outputs the controllers of this step
\* left, and the balance uses the sums of exactly these effects.
C2_StageOrder ==
  /\ IsPrefix(stage_log, StageOrder)
  /\ InLog("actuators") =>
       /\ eff_state.time = StepTime
       /\ eff_state.exterior.temperature
            = get_conditions(cfg.weather, StepTime).temperature
       /\ eff_state.solar_radiation
            = get_conditions(cfg.weather, StepTime).solar_radiation
       /\ DOMAIN effects = { n \in DOMAIN actuators : actuators[n].enabled }
       /\ \A n \in DOMAIN effects : effects[n] = get_effect(actuators[n], eff_state)
       /\ InLog("controllers")
  /\ InLog("physics") =>
       /\ pending.set
       /\ pending.totals.heating
            = EffectOf("heater", "heat_output") + EffectOf("fan", "heat_output")
                + EffectOf("injector", "heat_output")
       /\ pending.totals.ventilation_rate
            = EffectOf("heater", "ventilation_rate")
                + EffectOf("fan", "ventilation_rate")
                + EffectOf("injector", "ventilation_rate")
       /\ pending.totals.cooling
            = EffectOf("heater", "evaporative_cooling")
                + EffectOf("fan", "evaporative_cooling")
                + EffectOf("injector", "evaporative_cooling")

\* A second step in which the weather has turned, the heater is on and
\* every stage up to the state reconstruction has finished.
C2_Witness ==
  /\ stage_log = SubSeq(StageOrder, 1, 7)
  /\ step_count = 1
  /\ eff_state.exterior.temperature = 350
  /\ state.exterior.temperature = 350
  /\ pending.totals.ventilation_rate > 0

\* C3: once compute() or a physics function has raised inside step(), the
\* call in progress ends with the exception reaching the caller of step()
\* or run(); no further stage runs, no state of the simulation changes and
\* the step is not tried again.
C3_ErrorsPropagate ==
  [][pc = "raise"
       => /\ pc' = "ready"
          /\ outcome' = "raised"
          /\ UNCHANGED << state, controllers, actuators, mass_mC,
                          current_time, step_count, stats, sensor_reading >>]_vars

\* run() was left by an exception raised in its second step.
C3_Witness ==
  /\ outcome = "raised"
  /\ status = "error"
  /\ stats.steps_completed = 1
  /\ pc = "ready"

\* The number of steps after which the clock reaches end_time, counted
\* from the time t0
StepsToEnd(t0) ==
  IF t0 >= cfg.end_time THEN 0
  ELSE (cfg.end_time - t0 + cfg.time_step - 1) \div cfg.time_step

\* C4: when run(n) has returned it has executed exactly min(n, k) steps
\* and the status is STOPPED.
C4_RunStepCount ==
  outcome = "returned" =>
    /\ status = "stopped"
    /\ run_done = IF run_steps = None THEN StepsToEnd(run_t0)
                  ELSE IF cfg.end_time = None THEN run_steps
                  ELSE Min(run_steps, StepsToEnd(run_t0))

\* run(2) that ended after one step because the end time was reached.
C4_Witness ==
  /\ outcome = "returned"
  /\ run_steps = 2
  /\ run_done = 1
  /\ cfg.end_time # None

\* C5: after every step the interior temperature is within [-50, 60] C,
\* the interior CO2 within [200, 5000] ppm and the interior relative
\* humidity within [10, 100] %.
C5_InteriorRanges ==
  (step_count > 0 \/ pc = "telemetry") =>
    /\ state.interior.temperature >= -500 /\ state.interior.temperature <= 600
    /\ state.interior.co2_ppm >= 200 /\ state.interior.co2_ppm <= 5000
    /\ state.interior.humidity >= 10 /\ state.interior.humidity <= 100

\* A step from 59.9 C, 5 % and 4990 ppm that ended on three of the limits.
C5_Witness ==
  /\ step_count = 1
  /\ state.interior.temperature = 600
  /\ state.interior.humidity = 10
  /\ state.interior.co2_ppm = 5000

\* C6: in a single step with time step dt the interior temperature changes
\* by at most max_rate * dt (0.1 C/s, that is dt tenths of a degree).
C6_RateLimit ==
  [][ByStepOrRun
       => Abs(state'.interior.temperature - state.interior.temperature)
            <= MAX_TEMP_CHANGE_RATE * cfg.time_step]_vars

\* A 60 s step under a large heat gain that moved the interior by exactly
\* 6.0 C, from -49.8 C to -43.8 C.
C6_Witness ==
  /\ pc = "telemetry"
  /\ cfg.time_step = 60
  /\ eff_state.interior.temperature = -498
  /\ state.interior.temperature = -438

\* The enabled controllers an actuator is connected to
Drivers(a) ==
  { i \in DOMAIN controllers :
      /\ controllers[i].enabled
      /\ \E k \in DOMAIN controllers[i].connected :
           controllers[i].connected[k] = a }

LastDriver(a) == CHOOSE i \in Drivers(a) : \A j \in Drivers(a) : j <= i

\* C7: once the controllers of a step have run, every enabled hysteresis
\* controller's output is the one its compute() yields for this step's
\* process value, every actuator bound to an enabled controller carries
\* that controller's output clamped to its own limits, and the effects
\* evaluated afterwards are those of these actuator outputs.
C7_OutputsApplied ==
  /\ (InLog("controllers") /\ ~InLog("state")) =>
       \A i \in DOMAIN controllers :
         (controllers[i].enabled /\ controllers[i].kind = "hysteresis") =>
           LET c == controllers[i]
               pv == state.interior.temperature
           IN  /\ c.output = IF c.is_on THEN c.output_on ELSE c.output_off
               /\ 2 * pv < 2 * c.setpoint - c.hysteresis => c.is_on
               /\ 2 * pv > 2 * c.setpoint + c.hysteresis => ~c.is_on
  /\ InLog("controllers") =>
       \A a \in DOMAIN actuators :
         Drivers(a) # {} =>
           LET v == controllers[LastDriver(a)].output
           IN  actuators[a].output
                 = IF v < actuators[a].lo THEN actuators[a].lo
                   ELSE IF v > actuators[a].hi THEN actuators[a].hi ELSE v
  /\ InLog("actuators") =>
       /\ effects["heater"].heat_output = 85 * actuators["heater"].output
       /\ effects["fan"].ventilation_rate = actuators["fan"].output \div 2
       /\ effects["injector"].co2_injection_rate
            = 400 * actuators["injector"].output

\* The heating controller asked for 150 %, the heater took its limit of
\* 100 % and the effect of this step is the 8500 W of a heater at 100 %.
C7_Witness ==
  /\ InLog("actuators")
  /\ controllers[1].enabled /\ controllers[1].output = 150
  /\ actuators["heater"].output = 100
  /\ effects["heater"].heat_output = 8500

\* C8: the engine returned by create_engine_from_config has every enabled
\* actuator whose configuration names an enabled controller connected to
\* that controller.
C8_FactoryWires ==
  fengine.built =>
    \A i \in DOMAIN fconfig.actuators :
      LET acfg == fconfig.actuators[i]
      IN  (acfg.enabled /\ acfg.controller # "none"
             /\ \E j \in DOMAIN fconfig.controllers :
                  /\ fconfig.controllers[j].name = acfg.controller
                  /\ fconfig.controllers[j].enabled)
            => \E k \in DOMAIN fengine.controllers :
                 /\ fengine.controllers[k].name = acfg.controller
                 /\ \E m \in DOMAIN fengine.controllers[k].connected :
                      fengine.controllers[k].connected[m] = acfg.name

\* C9: after compute(pv) the latch of a hysteresis controller is, in
\* heating mode, on if pv < SP - h/2, off if pv > SP + h/2 and as before
\* otherwise; in cooling mode on if pv > SP + h/2, off if pv < SP - h/2
\* and as before otherwise.
C9_HysteresisLatch ==
  hyst_prev.op = "compute" =>
    LET below == 2 * hyst_prev.pv < 2 * hyst.setpoint - hyst.hysteresis
        above == 2 * hyst_prev.pv > 2 * hyst.setpoint + hyst.hysteresis
    IN  IF hyst.reverse_acting
        THEN /\ above => hyst.is_on
             /\ below => ~hyst.is_on
             /\ (~above /\ ~below) => hyst.is_on = hyst_prev.is_on
        ELSE /\ below => hyst.is_on
             /\ above => ~hyst.is_on
             /\ (~above /\ ~below) => hyst.is_on = hyst_prev.is_on

\* A latch that was on and stays on at a process value exactly on the
\* lower threshold of a band of positive width.
C9_Witness ==
  /\ hyst_prev.op = "compute"
  /\ hyst_prev.is_on /\ hyst.is_on
  /\ hyst.hysteresis > 0
  /\ 2 * hyst_prev.pv = 2 * hyst.setpoint - hyst.hysteresis

\* The stages whose effective threshold the process value reaches, for a
\* controller whose active stage before the call was prev
Qualifying(prev, pv) ==
  { i \in 0 .. Len(staged.stages) - 1 :
      (IF i <= prev
       THEN staged.stages[i + 1].threshold - staged.hysteresis
       ELSE staged.stages[i + 1].threshold) <= pv }

\* C10: after compute(pv) the active stage of a staged controller is the
\* highest stage whose effective threshold is at most pv (threshold minus
\* hysteresis for the stages up to the previously active one, the raw
\* threshold above it), and no stage if there is none.
C10_StagedActiveStage ==
  staged_prev.op = "compute" =>
    LET q == Qualifying(staged_prev.stage, staged_prev.pv)
    IN  IF q = {} THEN staged.current_stage = -1
        ELSE /\ staged.current_stage \in q
             /\ \A i \in q : i <= staged.current_stage

\* A stage held by the hysteresis: the process value is below the raw
\* threshold of the stage that stays active.
C10_Witness ==
  /\ staged_prev.op = "compute"
  /\ staged.current_stage >= 1
  /\ staged.current_stage = staged_prev.stage
  /\ staged_prev.pv < staged.stages[staged.current_stage + 1].threshold

\* The staged controller of the worked example: stages (25, 0.33),
\* (27, 0.66), (29, 1.0) and hysteresis 1.0, on the 0.1 C / percent grid
IsExampleStaged ==
  /\ staged.stages = << [threshold |-> 250, output |-> 33],
                        [threshold |-> 270, output |-> 66],
                        [threshold |-> 290, output |-> 100] >>
  /\ staged.hysteresis = 10

\* The last compute() calls made in a row had exactly these process values
EndsWith(pvs) ==
  /\ Len(staged_prev.pvs) >= Len(pvs)
  /\ SubSeq(staged_prev.pvs, Len(staged_prev.pvs) - Len(pvs) + 1,
            Len(staged_prev.pvs)) = pvs

\* C11 as stated: on the example controller compute(30) gives stage 2
\* (output 1.0), a following compute(29.3) stage 1 (0.66) and a following
\* compute(27.3) stage 0 (0.33).
C11_Original ==
  IsExampleStaged =>
    /\ EndsWith(<< 300 >>) =>
         (staged.current_stage = 2 /\ staged.output = 100)
    /\ EndsWith(<< 300, 293 >>) =>
         (staged.current_stage = 1 /\ staged.output = 66)
    /\ EndsWith(<< 300, 293, 273 >>) =>
         (staged.current_stage = 0 /\ staged.output = 33)

\* C11 amended: on the example controller compute(30) gives stage 2
\* (output 1.0), a following compute(29.3) keeps stage 2 (29.3 is not below
\* 29 - 1.0) and a following compute(27.3) drops to stage 1 (0.66).
C11_StagedExample ==
  IsExampleStaged =>
    /\ EndsWith(<< 300 >>) =>
         (staged.current_stage = 2 /\ staged.output = 100)
    /\ EndsWith(<< 300, 293 >>) =>
         (staged.current_stage = 2 /\ staged.output = 100)
    /\ EndsWith(<< 300, 293, 273 >>) =>
         (staged.current_stage = 1 /\ staged.output = 66)

\* The three compute() calls of the example have been made.
C11_Witness ==
  /\ IsExampleStaged
  /\ EndsWith(<< 300, 293, 273 >>)
  /\ staged.current_stage = 1

\* C12: every value returned by PID compute() lies within the configured
\* output limits.
C12_PidOutputWithinLimits ==
  pid_prev.op = "compute" => (pid.lo <= pid_prev.ret /\ pid_prev.ret <= pid.hi)

\* C13 as stated: with anti-windup on and Ki # 0, after a compute() whose
\* output saturated, Ki * integral is at most output_max.
C13_Original ==
  (pid_prev.op = "compute" /\ pid_prev.saturated /\ pid.anti_windup
     /\ pid.ki # 0)
    => pid.ki * pid.integral <= pid.hi

\* C13 amended: with anti-windup on and Ki # 0, after a compute() whose
\* output saturated, the integral is the one for which P + Ki * integral + D
\* is the clamped output (to within the rounding of the division by Ki),
\* so Ki * integral is at most output_max whenever P + D is not negative.
C13_AntiWindup ==
  (pid_prev.op = "compute" /\ pid_prev.saturated /\ pid.anti_windup
     /\ pid.ki # 0)
    => /\ Abs(pid_prev.p_term + pid.ki * pid.integral + pid_prev.d_term
                - pid_prev.ret) < Abs(pid.ki)
       /\ pid_prev.p_term + pid_prev.d_term >= 0
            => pid.ki * pid.integral <= pid.hi

\* Three saturating calls in a row with Kp = Kd = 0 and Ki = 10: the
\* integral sits at output_max / Ki.
C13_Witness ==
  /\ pid_prev.op = "compute" /\ pid_prev.saturated /\ pid_prev.n = 3
  /\ pid.anti_windup /\ pid.ki = 10 /\ pid.kp = 0
  /\ pid_prev.ret = pid.hi
  /\ pid.ki * pid.integral = pid.hi

\* The handlers subscribed to the event type or to the wildcard
Subscribed(event_key) ==
  { i \in DOMAIN cfg.sinks : cfg.sinks[i].key \in { event_key, "*" } }

\* C14: when a step emits its STATE_UPDATE event and handlers raise, every
\* handler subscribed to that type or to the wildcard is still invoked,
\* emit() returns and the step completes (it returns True with the clock
\* and the step count advanced).
C14_SinkFailuresIsolated ==
  [][(pc = "telemetry" /\ cfg.emit_events
        /\ step_count % cfg.emit_interval = 0)
       => /\ delivered'.event = "state_update"
          /\ ~delivered'.raised
          /\ \A i \in Subscribed("state_update") :
               \E k \in DOMAIN delivered'.invoked : delivered'.invoked[k] = i
          /\ pc' = "step_return" /\ ret'
          /\ step_count' = step_count + 1
          /\ current_time' = current_time + cfg.time_step]_vars

\* A step has returned True after its event went to four handlers, two of
\* which raise.
C14_Witness ==
  /\ pc = "step_return" /\ ret
  /\ delivered.event = "state_update"
  /\ delivered.invoked = << 1, 2, 3, 4 >>
  /\ cfg.sinks[1].raises /\ cfg.sinks[3].raises

\* How often an event type occurs in a sequence of event types
CountOf(evs, type) == Cardinality({ i \in DOMAIN evs : evs[i] = type })

\* C15: with events enabled a step emits STATE_UPDATE exactly if its
\* 0-based index since construction or the last reset is a multiple of
\* emit_interval, so a run() that executed the steps first .. last has
\* emitted one event per multiple of emit_interval among these indices
\* (the ceiling of n / k events for n steps of a fresh engine).
C15_EmitInterval ==
  [][/\ (pc = "telemetry" /\ cfg.emit_events)
          => IF \E m \in 0 .. step_count : step_count = m * cfg.emit_interval
             THEN events' = Append(events, "state_update")
             ELSE events' = events
     /\ (pc = "run_exit" /\ cfg.emit_events)
          => /\ CountOf(events, "state_update")
                  = Cardinality({ i \in (step_count - run_done) .. (step_count - 1) :
                                    i % cfg.emit_interval = 0 })
             /\ step_count = run_done
                  => CountOf(events, "state_update")
                       = (run_done + cfg.emit_interval - 1) \div cfg.emit_interval]_vars

\* A run that started at step index 1 with emit_interval 2 and executed
\* two steps: only the second of them emitted.
C15_Witness ==
  /\ outcome = "returned" /\ cfg.emit_events /\ cfg.emit_interval = 2
  /\ run_done = 2 /\ step_count = 3
  /\ CountOf(events, "state_update") = 1

\* C16: the events of one run() call are one SIMULATION_START, first, and
\* one SIMULATION_STOP, last, with every STATE_UPDATE in between.
C16_StartStopEvents ==
  [][(caller = "run" /\ pc' = "ready")
       => /\ Len(events') >= 2
          /\ events'[1] = "simulation_start"
          /\ events'[Len(events')] = "simulation_stop"
          /\ CountOf(events', "simulation_start") = 1
          /\ CountOf(events', "simulation_stop") = 1]_vars

\* A run of two steps that has returned.
C16_Witness ==
  /\ outcome = "returned"
  /\ events = << "simulation_start", "state_update", "state_update",
                 "simulation_stop" >>

C18_HystOutputIsConfigured ==
  hyst.output = IF hyst.is_on THEN hyst.output_on ELSE hyst.output_off

\* C19: after any sequence of compute(), add_stage(), clear_stages() and
\* reset() calls the stage index of the staged controller is -1 or a valid
\* index into the sorted stage list, and the output is the configured
\* output of that stage, or 0 when no stage is active.
C19_StagedOutputOfStage ==
  /\ staged.current_stage \in -1 .. (Len(staged.stages) - 1)
  /\ staged.output = IF staged.current_stage >= 0
                     THEN staged.stages[staged.current_stage + 1].output
                     ELSE 0

\* C20: after reset(), whatever compute()/update() calls came before, the
\* output and the algorithm-specific state of each of the four controllers
\* (PID integral and derivative memory, hysteresis latch, staged stage
\* index, schedule output) are what the constructor gives a controller of
\* the same configuration.
C20_ResetRestoresConstruction ==
  /\ pid_prev.op = "reset"
       => LET new == NewPID(pid.kp, pid.ki, pid.kd, pid.setpoint, pid.lo,
                            pid.hi, pid.anti_windup, pid.derivative_filter,
                            pid.reverse_acting)
          IN  /\ pid.output = new.output /\ pid.integral = new.integral
              /\ pid.last_error = new.last_error
              /\ pid.last_derivative = new.last_derivative
              /\ pid.last_pv = new.last_pv
  /\ hyst_prev.op = "reset"
       => LET new == NewHysteresis(hyst.setpoint, hyst.hysteresis,
                                   hyst.output_on, hyst.output_off,
                                   hyst.reverse_acting)
          IN  hyst.output = new.output /\ hyst.is_on = new.is_on
  /\ staged_prev.op = "reset"
       => LET new == NewStaged(staged.stages, staged.hysteresis)
          IN  /\ staged.output = new.output
              /\ staged.current_stage = new.current_stage
  /\ sched_prev.op = "reset"
       => sched.output = NewSchedule(sched.schedule, sched.interpolate,
                                     sched.mode, sched.default_value,
                                     sched.enabled).output

\* The entry the claim brackets t with from below, on the time axis of
\* the day of t: the latest entry at or before t, else yesterday's last.
BracketBefore(sch, t) ==
  LET before == { i \in DOMAIN sch : sch[i].minutes <= t }
  IN  IF before = { }
      THEN [at |-> sch[Len(sch)].minutes - 24 * 60, of |-> sch[Len(sch)]]
      ELSE LET i == CHOOSE i \in before : \A j \in before : j <= i
           IN  [at |-> sch[i].minutes, of |-> sch[i]]

\* The entry the claim brackets t with from above: the first entry after
\* t, else tomorrow's first.
BracketAfter(sch, t) ==
  LET after == { i \in DOMAIN sch : sch[i].minutes > t }
  IN  IF after = { }
      THEN [at |-> sch[1].minutes + 24 * 60, of |-> sch[1]]
      ELSE LET i == CHOOSE i \in after : \A j \in after : i <= j
           IN  [at |-> sch[i].minutes, of |-> sch[i]]

\* The linear interpolation between the two brackets at t
Interpolated(sch, t) ==
  LET p == BracketBefore(sch, t)
      n == BracketAfter(sch, t)
  IN  p.of.value + TDiv((t - p.at) * (n.of.value - p.of.value), n.at - p.at)

\* Times of day at which get_scheduled_value is looked at
QueryTimes == ScheduleTimes \cup { 6 * 60, 18 * 60, 22 * 60 }

\* C21 as stated: with interpolation and a non-empty schedule,
\* get_scheduled_value(t) is the linear interpolation between the
\* bracketing entries with 24 h added across midnight, at every t.
C21_Original ==
  (sched.interpolate /\ Len(sched.schedule) > 0)
    => \A t \in QueryTimes :
         GetScheduledValue(sched, t) = Interpolated(sched.schedule, t)

\* C21: with interpolation and a non-empty schedule, get_scheduled_value(t)
\* is the value of the entry bracketing t from below when both brackets
\* fall on the same minute of the day (one entry, or all entries at one
\* time), else the linear interpolation between the brackets with 24 h
\* added across midnight; it is an entry's value at that entry's time and
\* lies between the two bracketing values; compute() returns it.
C21_ScheduleInterpolation ==
  (sched.interpolate /\ Len(sched.schedule) > 0)
    => /\ \A t \in QueryTimes :
            LET p == BracketBefore(sched.schedule, t)
                n == BracketAfter(sched.schedule, t)
                v == GetScheduledValue(sched, t)
            IN  /\ v = IF p.of.minutes = n.of.minutes THEN p.of.value
                       ELSE Interpolated(sched.schedule, t)
                /\ Min(p.of.value, n.of.value) <= v
                /\ v <= Max(p.of.value, n.of.value)
                /\ (\E i \in DOMAIN sched.schedule : sched.schedule[i].minutes = t)
                     => \E i \in DOMAIN sched.schedule :
                          /\ sched.schedule[i].minutes = t
                          /\ sched.schedule[i].value = v
       /\ sched_prev.op = "compute"
            => sched.output = GetScheduledValue(sched, sched_prev.time)

\* compute() at 00:00 on the schedule 22:00 -> 16, 06:00 -> 20 has returned
\* 17, and at 07:00 the schedule 06:00 -> 18, 18:00 -> 24 gives 18.5.
C21_Witness ==
  /\ sched.interpolate /\ sched_prev.op = "compute"
  /\ \/ /\ sched_prev.time = 0 /\ sched.output = 1700
        /\ sched.schedule[1] = [minutes |-> 6 * 60, value |-> 2000]
        /\ sched.schedule[2] = [minutes |-> 22 * 60, value |-> 1600]
     \/ /\ sched_prev.time = 7 * 60 /\ sched.output = 1850
        /\ Len(sched.schedule) = 2

\* C22: an update() of an enabled schedule controller in "setpoint" mode
\* writes the value scheduled for the time of the state to the setpoint
\* and leaves the output; in "direct" mode that value is the output and is
\* what every connected actuator is set to (within its limits).  A
\* disabled controller is left as it is.
C22_ScheduleModes ==
  sched_prev.op = "update" =>
    LET v == GetScheduledValue(sched, sched_prev.time)
    IN  /\ (sched.enabled /\ sched.mode = "setpoint")
             => sched.setpoint = v /\ sched.output = sched_prev.output
        /\ (sched.enabled /\ sched.mode = "direct")
             => /\ sched.output = v
                /\ \A i \in DOMAIN sched.connected :
                     LET a == sched.connected[i]
                     IN  a.output = IF v < a.lo THEN a.lo
                                    ELSE IF v > a.hi THEN a.hi ELSE v
        /\ ~sched.enabled => sched.output = sched_prev.output

\* A direct-mode update at 07:00 on the schedule 06:00 -> 18, 18:00 -> 24:
\* the output is 18.5 and so is the connected actuator's.
C22_Witness ==
  /\ sched_prev.op = "update" /\ sched_prev.time = 7 * 60
  /\ sched.enabled /\ sched.mode = "direct" /\ sched.interpolate
  /\ sched.output = 1850 /\ sched_prev.output # 1850
  /\ Len(sched.connected) = 1 /\ sched.connected[1].output = 1850

\* C23: after reset(), whatever step() and run() calls came before (a run
\* that ended in ERROR included), current_time is the start time, the
\* step counters are 0 and the status is IDLE; an initial state handed to
\* reset() is the engine's state.
C23_ResetRestoresClock ==
  outcome = "reset" =>
    /\ current_time = 0 /\ step_count = 0
    /\ stats.steps_completed = 0 /\ stats.simulation_time = 0
    /\ status = "idle"
    /\ Len(heap.objs) = 2 => heap.id = 2 /\ state = heap.objs[2]
    /\ Len(heap.objs) = 1 => state = heap.objs[1]

\* reset(s0) after a run() that executed a step: the engine is on the
\* object handed in, which differs from the one it was on.
C23_Witness ==
  /\ outcome = "reset" /\ run_done >= 1 /\ calls >= 2
  /\ Len(heap.objs) = 2 /\ heap.objs[1] # heap.objs[2]
  /\ state = heap.objs[2] /\ state.interior.temperature = 599

\* The step that has just returned True ran on a state with no sun, with
\* every actuator effect at zero and with the interior at the exterior
\* temperature of the step.
AtEquilibrium ==
  /\ pc = "step_return" /\ ret
  /\ LET used == heap.objs[Len(heap.objs) - 1]
     IN  /\ used.solar_radiation = 0
         /\ used.interior.temperature = used.exterior.temperature
  /\ \A n \in DOMAIN effects : effects[n] = ZeroEffect

DirectStepRaised ==
  /\ pc = "ready" /\ outcome = "raised"
  /\ \A i \in DOMAIN events : events[i] # "simulation_stop"

\* C26: when step() raises, the engine holds the GreenhouseState it held
\* when the step began, exterior conditions and timestamp included.
C26_RaisingStepLeavesStateAsBefore ==
  DirectStepRaised => state = heap.objs[1]

\* C27: a step() or run() called with the status STOPPED executes no
\* simulation step: the engine stays on the GreenhouseState object it was
\* on when the call began, and current_time and the count of steps stay
\* as they were, until reset() is called.
C27_StoppedEngineStaysPut ==
  (status0 = "stopped" /\ outcome # "reset")
    => /\ heap.id = 1 /\ state = heap.objs[1]
       /\ caller = "run" => (current_time = run_t0 /\ run_done = 0)

\* C28: at every moment current_time is the start time plus
\* steps_completed times time_step and stats.simulation_time is
\* steps_completed times time_step; steps_completed goes up by one exactly
\* when a step() returns True, goes to 0 at reset(), and is otherwise
\* left alone.
C28_ClockCountsTrueSteps ==
  /\ [](/\ current_time = 0 + stats.steps_completed * cfg.time_step
        /\ stats.simulation_time = stats.steps_completed * cfg.time_step)
  /\ [][stats'.steps_completed =
          IF pc = "telemetry" /\ pc' = "step_return" /\ ret'
          THEN stats.steps_completed + 1
          ELSE IF pc = "ready" /\ outcome' = "reset" THEN 0
          ELSE stats.steps_completed]_vars

\* Two steps returned True and the step() after them returned False: the
\* clock stands at two time steps and the third call was not counted.
C28_Witness ==
  /\ outcome = "false" /\ calls >= 2
  /\ stats.steps_completed = 2
  /\ current_time = 2 * cfg.time_step /\ stats.simulation_time = current_time

\* C29: the first step() after reset() leaves the thermal mass, the
\* controllers and the actuators in the state in which a step on the same
\* GreenhouseState leaves those of a freshly constructed engine (an
\* actuator whose output was set by hand before the engine was built is
\* left out of the comparison).
C29_StepAfterResetAsFresh ==
  (pc = "ready" /\ outcome = "true" /\ outcome0 = "reset")
    => LET used == heap.objs[2]
           fresh == ExecuteControllers(InitialControllers(cfg.wiring),
                                       InitialActuators(cfg.wiring),
                                       used, 1, 0)
       IN  /\ mass_mC = ThermalMassUpdate(MASS_INITIAL_MC, cfg.time_step, used)
           /\ controllers = fresh.controllers
           /\ cfg.wiring # "unbound" => actuators = fresh.actuators

(***************************************************************************)
(* The event bus on its own.                                               *)
(***************************************************************************)
\* C25: after n emit() calls on a bus with max_history = m the history
\* holds exactly the most recent min(n, m) events, in emission order.
C25_HistoryKeepsMostRecent ==
  LET n == Len(bus_emit.log)
      kept == Min(n, bus.max_history)
  IN  bus.history = SubSeq(bus_emit.log, n - kept + 1, n)

\* Three events went to a bus that keeps two: the first was evicted and
\* the second and third are held in that order.
C25_Witness ==
  /\ bus.max_history = 2
  /\ Len(bus_emit.log) = 3
  /\ bus.history = << bus_emit.log[2], bus_emit.log[3] >>

\* The emit() whose dispatch has ended
EmitDone == bus_emit.phase = "idle" /\ bus_emit.event.seq > 0
Invocations(h) ==
  Cardinality({ i \in DOMAIN bus_emit.invoked : bus_emit.invoked[i] = h })

\* C30: every handler that was subscribed to the type of the event or to
\* the wildcard when emit() began has been invoked exactly once for the
\* event when emit() returns, whatever the handlers subscribed or
\* unsubscribed during the dispatch.
C30_SubscribersInvokedOnce ==
  EmitDone => \A h \in bus_emit.at_start : Invocations(h) = 1

====
